---------------------------- MODULE Spec2Model ----------------------------
(***************************************************************************)
(* A model of era5-tools' vertical remapping core:                         *)
(*   era5/units_converter.py  the units registry and conversion calculator *)
(*   era5/cf_netcdf.py        CfVariable / CfDataset                       *)
(*   era5/vertical_remap.py   VerticalRemapper                             *)
(*                                                                         *)
(* Numbers are exact rationals [n, d] in lowest terms (d > 0); d = 0 is a  *)
(* non-finite value (the result of a division by zero in numpy).  Strings  *)
(* that the code matches against regular expressions are sequences of      *)
(* one-character strings.  Python indices are 0-based, TLA+ sequences are  *)
(* 1-based: a Python a[k] is a[k + 1] here.                                *)
(***************************************************************************)
EXTENDS Integers, Sequences, FiniteSets, TLC

VARIABLES
    pc,           \* position of the modelled call
    source,       \* units_converter: the source unit string
    destination,  \* units_converter: the destination unit string
    looked,       \* units_converter: what to_si(source) gave
    converted,    \* units_converter: what convert(source, destination) gave
    remapper,     \* the VerticalRemapper (a, b, units, level_map)
    surface_pressure,  \* pressure/remap_column: the surface pressure
    pressure_units,    \* pressure/remap_column: the units argument
    column,       \* remap_column: the variable, pressure and fill_value given
    pressures,    \* what pressure(...) gave
    remapped,     \* what remap_column(...) gave
    level_data,   \* remap_all: the dataset on pressure levels
    surface_data, \* remap_all: the dataset of surface values
    new_dataset,  \* remap_all: the output dataset
    handles,      \* remap_all: the datasets that are open
    position,     \* remap_all: the loop's place in level_data.variables
    added_p,      \* remap_all: its local flag
    error,        \* remap_all: the exception that ended the call
    trace,        \* the passes of the loop so far: variable and branch
    creations,    \* how often sigma_level and p were created
    p_writers,    \* the variables whose pass wrote p
    handed,       \* what the latest pass handed to remap_column, by column
    prior,        \* cf_netcdf: the destination dataset before the call
    call          \* cf_netcdf: the CfDataset method called and its argument

unitVars == <<source, destination, looked, converted>>
colVars == <<surface_pressure, pressure_units, column, pressures, remapped>>
remapVars == <<level_data, surface_data, new_dataset, handles, position,
               added_p, error, trace, creations, p_writers, handed, prior,
               call>>
vars == <<pc, unitVars, remapper, colVars, remapVars>>

---------------------------------------------------------------------------
(* Exact arithmetic.                                                        *)

Abs(i) == IF i < 0 THEN -i ELSE i

RECURSIVE GCD(_, _)
GCD(i, j) == IF j = 0 THEN i ELSE GCD(j, i % j)

NonFinite == [n |-> 0, d |-> 0]

Rat(num, den) ==
    IF den = 0 THEN NonFinite
    ELSE LET g == GCD(Abs(num), Abs(den))
             s == IF den < 0 THEN -1 ELSE 1
         IN  [n |-> s * (num \div g), d |-> s * (den \div g)]

Num(i) == [n |-> i, d |-> 1]

IsFinite(x) == x.d # 0

\* Common factors are divided out before multiplying, to keep the
\* intermediate integers small.
RAdd(x, y) ==
    IF x.d = 0 \/ y.d = 0 THEN NonFinite
    ELSE LET g == GCD(x.d, y.d)
         IN  Rat(x.n * (y.d \div g) + y.n * (x.d \div g), (x.d \div g) * y.d)

RNeg(x) == [n |-> -x.n, d |-> x.d]

RSub(x, y) == RAdd(x, RNeg(y))

RMul(x, y) ==
    IF x.d = 0 \/ y.d = 0 THEN NonFinite
    ELSE LET g1 == GCD(Abs(x.n), y.d)
             g2 == GCD(Abs(y.n), x.d)
         IN  Rat((x.n \div g1) * (y.n \div g2), (x.d \div g2) * (y.d \div g1))

RDiv(x, y) ==
    IF x.d = 0 \/ y.d = 0 \/ y.n = 0 THEN NonFinite
    ELSE RMul(x, Rat(y.d, y.n))

\* Comparisons with a non-finite operand are false, as for a NaN.
RLess(x, y) == x.d # 0 /\ y.d # 0 /\ x.n * y.d < y.n * x.d

RLeq(x, y) == x.d # 0 /\ y.d # 0 /\ x.n * y.d <= y.n * x.d

---------------------------------------------------------------------------
(* era5/units_converter.py                                                  *)

\* class Units: seven integer exponents.
Units(current_, distance_, intensity_, mass_, mole_, temperature_, time_) ==
    [current |-> current_, distance |-> distance_, intensity |-> intensity_,
     mass |-> mass_, mole |-> mole_, temperature |-> temperature_,
     time |-> time_]

UnitsKeys == {"current", "distance", "intensity", "mass", "mole",
              "temperature", "time"}

\* Units.__eq__: every exponent agrees.
UnitsEq(x, y) == \A key \in UnitsKeys : x[key] = y[key]

\* Units.__mul__: exponents add.
UnitsMul(x, y) == [key \in UnitsKeys |-> x[key] + y[key]]

\* Units.__truediv__: exponents subtract.
UnitsDiv(x, y) == [key \in UnitsKeys |-> x[key] - y[key]]

\* Fundamental units.
current == Units(1, 0, 0, 0, 0, 0, 0)
distance == Units(0, 1, 0, 0, 0, 0, 0)
intensity == Units(0, 0, 1, 0, 0, 0, 0)
mass == Units(0, 0, 0, 1, 0, 0, 0)
mole == Units(0, 0, 0, 0, 1, 0, 0)
temperature == Units(0, 0, 0, 0, 0, 1, 0)
time == Units(0, 0, 0, 0, 0, 0, 1)

\* Derived units.
velocity == UnitsDiv(distance, time)
acceleration == UnitsDiv(velocity, time)
force == UnitsMul(mass, velocity)
area == UnitsMul(distance, distance)
volume == UnitsMul(distance, area)
pressure == UnitsDiv(force, area)

(* Regular expressions, as the syntax trees of the patterns of _default:   *)
(*   <<"lit", w>>  the characters of w       <<"cls", S>>  one character   *)
(*   <<"opt", r>>  r?                        <<"alt", rs>> r1|r2|...       *)
(*   <<"cat", rs>> r1 r2 ...                                               *)
(* Every pattern of the table ends with $ and is used with re.match, which *)
(* anchors at the start of the string.                                     *)
Lit(w) == <<"lit", w>>
Cls(S) == <<"cls", S>>
Opt(r) == <<"opt", r>>
Alt(rs) == <<"alt", rs>>
Cat(rs) == <<"cat", rs>>

RECURSIVE Lang(_)
RECURSIVE LangCat(_, _)

\* The words rs[k] rs[k+1] ... can match.
LangCat(rs, k) ==
    IF k > Len(rs) THEN {<<>>}
    ELSE {u \o w : u \in Lang(rs[k]), w \in LangCat(rs, k + 1)}

\* The words a pattern (without its $) can match.
Lang(r) ==
    CASE r[1] = "lit" -> {r[2]}
      [] r[1] = "cls" -> {<<c>> : c \in r[2]}
      [] r[1] = "opt" -> Lang(r[2]) \cup {<<>>}
      [] r[1] = "alt" -> UNION {Lang(r[2][k]) : k \in DOMAIN r[2]}
      [] r[1] = "cat" -> LangCat(r[2], 1)

\* re.match(regex + "$", units): the whole string is a word of the pattern;
\* Python's $ also matches just before a newline that ends the string.
match(regex, units) ==
    \/ units \in Lang(regex)
    \/ /\ Len(units) > 0
       /\ units[Len(units)] = "\n"
       /\ SubSeq(units, 1, Len(units) - 1) \in Lang(regex)

Conversion(regex_, factor_, type_) ==
    [regex |-> regex_, factor |-> factor_, type |-> type_]

s_opt == Opt(Lit(<<"s">>))

\* r"(m|[Mm]eter(s)?)$"
re_meter ==
    Alt(<<Lit(<<"m">>),
          Cat(<<Cls({"M", "m"}), Lit(<<"e", "t", "e", "r">>), s_opt>>)>>)

\* r"(atm|[Aa]tmosphere(s)?)$"
re_atm ==
    Alt(<<Lit(<<"a", "t", "m">>),
          Cat(<<Cls({"A", "a"}),
                Lit(<<"t", "m", "o", "s", "p", "h", "e", "r", "e">>),
                s_opt>>)>>)

\* r"[Bb]ar(s)?$"
re_bar == Cat(<<Cls({"B", "b"}), Lit(<<"a", "r">>), s_opt>>)

\* r"([Dd]eci)bar(s)$": the s is not optional here.
re_decibar ==
    Cat(<<Cat(<<Cls({"D", "d"}), Lit(<<"e", "c", "i">>)>>),
          Lit(<<"b", "a", "r">>), Lit(<<"s">>)>>)

\* r"(hPa|mb|([Mm]|[Mm]illi)bar(s)?)$"
re_hPa ==
    Alt(<<Lit(<<"h", "P", "a">>),
          Lit(<<"m", "b">>),
          Cat(<<Alt(<<Cls({"M", "m"}),
                      Cat(<<Cls({"M", "m"}), Lit(<<"i", "l", "l", "i">>)>>)>>),
                Lit(<<"b", "a", "r">>), s_opt>>)>>)

\* r"(Pa|[Pp]ascal(s)?)$"
re_Pa ==
    Alt(<<Lit(<<"P", "a">>),
          Cat(<<Cls({"P", "p"}), Lit(<<"a", "s", "c", "a", "l">>), s_opt>>)>>)

\* r"K$"
re_K == Lit(<<"K">>)

_default ==
    <<Conversion(re_meter, Num(1), distance),
      Conversion(re_atm, Num(101325), pressure),
      Conversion(re_bar, Num(100000), pressure),
      Conversion(re_decibar, Num(10000), pressure),
      Conversion(re_hPa, Num(100), pressure),
      Conversion(re_Pa, Num(1), pressure),
      Conversion(re_K, Num(1), temperature)>>

\* basic_converter = UnitsConverter(_default): the converter is its table.
basic_converter == _default

(* A call's outcome: ok with a units type and a factor, or the exception   *)
(* raised with its message (a sequence of text pieces).                    *)
Returned(type_, factor_) ==
    [ok |-> TRUE, type |-> type_, factor |-> factor_,
     error |-> "", message |-> <<>>]

Raised(error_, message_) ==
    [ok |-> FALSE, type |-> Units(0, 0, 0, 0, 0, 0, 0), factor |-> NonFinite,
     error |-> error_, message |-> message_]

\* The entry of the table that the loop of to_si returns for the matching
\* positions hits: the first of them, or UnitsError when there is none.
FirstMatch(converter, units, hits) ==
    IF hits = {}
    THEN Raised("UnitsError", units \o <<" not found in converter.">>)
    ELSE Returned(converter[CHOOSE k \in hits : \A j \in hits : k <= j].type,
                  converter[CHOOSE k \in hits : \A j \in hits : k <= j].factor)

\* UnitsConverter.to_si: the first entry of the table whose regex matches.
to_si(converter, units) ==
    FirstMatch(converter, units,
               {k \in DOMAIN converter : match(converter[k].regex, units)})

\* from_si with the factor left as it is (not inverted).
from_si_keeps_factor(converter, units) == to_si(converter, units)

\* 1./factor of a looked up entry: a division of Python floats, which
\* raises ZeroDivisionError for a factor of 0.
Inverted(r) ==
    IF ~r.ok THEN r
    ELSE IF r.factor.n = 0 /\ r.factor.d # 0
    THEN Raised("ZeroDivisionError", <<"float division by zero">>)
    ELSE Returned(r.type, RDiv(Num(1), r.factor))

\* UnitsConverter.from_si: the same lookup, 1./factor.
from_si(converter, units) == Inverted(to_si(converter, units))

\* The product of two looked up factors, without the comparison of types.
Unchecked(r1, r2) ==
    IF ~r1.ok THEN r1
    ELSE IF ~r2.ok THEN r2
    ELSE Returned(r1.type, RMul(r1.factor, r2.factor))

\* convert without the comparison of the two types.
convert_skips_type_check(converter, src, dst) ==
    Unchecked(to_si(converter, src), from_si(converter, dst))

\* The end of convert: r1 is to_si(source), r2 is from_si(destination).
Checked(r1, r2, src, dst) ==
    IF ~r1.ok THEN r1
    ELSE IF ~r2.ok THEN r2
    ELSE IF UnitsEq(r1.type, r2.type)
         THEN Returned(r1.type, RMul(r1.factor, r2.factor))
         ELSE Raised("UnitsError",
                     <<"Cannot convert ">> \o src \o <<" to ">> \o dst
                         \o <<".">>)

\* UnitsConverter.convert: to_si(source) first, then from_si(destination),
\* then the comparison of the two types.
convert(converter, src, dst) ==
    Checked(to_si(converter, src), from_si(converter, dst), src, dst)

---------------------------------------------------------------------------
(* era5/vertical_remap.py: VerticalRemapper, pressure and remap_column.     *)

\* A level_map argument: a tuple of half-level indices, or None.
LevelMap(map_) == [given |-> TRUE, map |-> map_]

NoLevelMap == [given |-> FALSE, map |-> <<>>]

\* VerticalRemapper.__init__
VerticalRemapper(a_, b_, units_, level_map_) ==
    [a |-> a_, b |-> b_, units |-> units_, level_map |-> level_map_]

\* a_era_interim (hPa), two decimals.
a_era_interim ==
    <<Rat(0, 100), Rat(20, 100), Rat(38, 100), Rat(64, 100),
      Rat(96, 100), Rat(134, 100), Rat(181, 100), Rat(235, 100),
      Rat(298, 100), Rat(374, 100), Rat(465, 100), Rat(576, 100),
      Rat(713, 100), Rat(884, 100), Rat(1095, 100), Rat(1356, 100),
      Rat(1681, 100), Rat(2082, 100), Rat(2580, 100), Rat(3196, 100),
      Rat(3960, 100), Rat(4907, 100), Rat(6018, 100), Rat(7307, 100),
      Rat(8765, 100), Rat(10376, 100), Rat(12077, 100), Rat(13775, 100),
      Rat(15380, 100), Rat(16819, 100), Rat(18045, 100), Rat(19028, 100),
      Rat(19755, 100), Rat(20222, 100), Rat(20430, 100), Rat(20384, 100),
      Rat(20097, 100), Rat(19584, 100), Rat(18865, 100), Rat(17961, 100),
      Rat(16899, 100), Rat(15706, 100), Rat(14411, 100), Rat(13043, 100),
      Rat(11633, 100), Rat(10210, 100), Rat(8802, 100), Rat(7438, 100),
      Rat(6144, 100), Rat(4942, 100), Rat(3851, 100), Rat(2888, 100),
      Rat(2064, 100), Rat(1386, 100), Rat(855, 100), Rat(467, 100),
      Rat(210, 100), Rat(66, 100), Rat(7, 100), Rat(0, 100),
      Rat(0, 100)>>

\* b_era_interim, five decimals.
b_era_interim ==
    <<Rat(0, 100000), Rat(0, 100000), Rat(0, 100000),
      Rat(0, 100000), Rat(0, 100000), Rat(0, 100000),
      Rat(0, 100000), Rat(0, 100000), Rat(0, 100000),
      Rat(0, 100000), Rat(0, 100000), Rat(0, 100000),
      Rat(0, 100000), Rat(0, 100000), Rat(0, 100000),
      Rat(0, 100000), Rat(0, 100000), Rat(0, 100000),
      Rat(0, 100000), Rat(0, 100000), Rat(0, 100000),
      Rat(0, 100000), Rat(0, 100000), Rat(0, 100000),
      Rat(8, 100000), Rat(46, 100000), Rat(182, 100000),
      Rat(508, 100000), Rat(1114, 100000), Rat(2068, 100000),
      Rat(3412, 100000), Rat(5169, 100000), Rat(7353, 100000),
      Rat(9967, 100000), Rat(13002, 100000), Rat(16438, 100000),
      Rat(20248, 100000), Rat(24393, 100000), Rat(28832, 100000),
      Rat(33515, 100000), Rat(38389, 100000), Rat(43396, 100000),
      Rat(48477, 100000), Rat(53571, 100000), Rat(58617, 100000),
      Rat(63555, 100000), Rat(68327, 100000), Rat(72879, 100000),
      Rat(77160, 100000), Rat(81125, 100000), Rat(84737, 100000),
      Rat(87966, 100000), Rat(90788, 100000), Rat(93194, 100000),
      Rat(95182, 100000), Rat(96765, 100000), Rat(97966, 100000),
      Rat(98827, 100000), Rat(99402, 100000), Rat(99763, 100000),
      Rat(100000, 100000)>>

level_map_era_interim ==
    <<5, 7, 8, 11, 12, 14, 17, 19, 22, 23,
      25, 26, 28, 29, 30, 31, 32, 33, 35, 36,
      38, 39, 40, 42, 43, 44, 45, 46, 47, 48,
      49, 50, 51, 52, 53, 55, 57>>

era_interim_remapper ==
    VerticalRemapper(a_era_interim, b_era_interim, <<"h", "P", "a">>,
                     LevelMap(level_map_era_interim))

\* An array-valued outcome: the array, or the exception raised.
ArrayReturned(value_) == [ok |-> TRUE, value |-> value_, error |-> ""]

ArrayRaised(error_) == [ok |-> FALSE, value |-> <<>>, error |-> error_]

\* A Python index k is valid for a sequence of length n when -n <= k < n;
\* a negative index counts from the end.
ValidIndex(seq, k) == -Len(seq) <= k /\ k < Len(seq)

PyItem(seq, k) == IF k >= 0 THEN seq[k + 1] ELSE seq[Len(seq) + k + 1]

\* a[level]*c + b[level]*sp, the pressure at a half-level.
HalfLevelPressure(self, level, factor, sp) ==
    RAdd(RMul(PyItem(self.a, level), factor), RMul(PyItem(self.b, level), sp))

\* The body of pressure with the upper half-level taken at level instead
\* of level + 1.
SameHalfLevels(self, sp, c) ==
    IF ~c.ok THEN ArrayRaised(c.error)
    ELSE IF ~self.level_map.given THEN ArrayRaised("TypeError")
    ELSE IF \E i \in DOMAIN self.level_map.map :
                ~ValidIndex(self.a, self.level_map.map[i])
                    \/ ~ValidIndex(self.b, self.level_map.map[i])
         THEN ArrayRaised("IndexError")
    ELSE ArrayReturned(
             [i \in DOMAIN self.level_map.map |->
                 RMul(Rat(1, 2),
                      RAdd(HalfLevelPressure(self, self.level_map.map[i],
                                             c.factor, sp),
                           HalfLevelPressure(self, self.level_map.map[i],
                                             c.factor, sp)))])

pressure_same_half_level(self, sp, units, converter) ==
    SameHalfLevels(self, sp, convert(converter, self.units, units))

\* The body of pressure once the conversion factor c is looked up:
\* len(self.level_map) (a TypeError when level_map is None), then one
\* value per entry of level_map, the mean of its two half-levels.
FullLevels(self, sp, c) ==
    IF ~c.ok THEN ArrayRaised(c.error)
    ELSE IF ~self.level_map.given THEN ArrayRaised("TypeError")
    ELSE IF \E i \in DOMAIN self.level_map.map :
                \/ ~ValidIndex(self.a, self.level_map.map[i])
                \/ ~ValidIndex(self.b, self.level_map.map[i])
                \/ ~ValidIndex(self.a, self.level_map.map[i] + 1)
                \/ ~ValidIndex(self.b, self.level_map.map[i] + 1)
         THEN ArrayRaised("IndexError")
    ELSE ArrayReturned(
             [i \in DOMAIN self.level_map.map |->
                 RMul(Rat(1, 2),
                      RAdd(HalfLevelPressure(self, self.level_map.map[i],
                                             c.factor, sp),
                           HalfLevelPressure(self, self.level_map.map[i] + 1,
                                             c.factor, sp)))])

\* VerticalRemapper.pressure: the conversion factor first (it may raise).
VerticalRemapper_pressure(self, sp, units, converter) ==
    FullLevels(self, sp, convert(converter, self.units, units))

(* scipy.interpolate.interp1d(x, y, bounds_error=False, fill_value=fill),  *)
(* kind linear, assume_sorted False: the samples are sorted by x (a stable *)
(* sort), a query is located by a left binary search clipped to            *)
(* 1..len(x)-1, the value is slope*(q - x_lo) + y_lo, and a query below    *)
(* x[0] or above x[-1] gives fill.                                         *)
RECURSIVE InsertSample(_, _)
InsertSample(sorted, sample) ==
    IF sorted = <<>> THEN <<sample>>
    ELSE IF RLess(sample[1], sorted[Len(sorted)][1])
         THEN Append(InsertSample(SubSeq(sorted, 1, Len(sorted) - 1), sample),
                     sorted[Len(sorted)])
         ELSE Append(sorted, sample)

RECURSIVE SortSamples(_, _, _)
SortSamples(x, y, k) ==
    IF k = 0 THEN <<>>
    ELSE InsertSample(SortSamples(x, y, k - 1), <<x[k], y[k]>>)

\* numpy.searchsorted(arr, key) (side left): a binary search from the
\* 0-based bounds lo, hi.
RECURSIVE BinarySearchLeft(_, _, _, _)
BinarySearchLeft(arr, key, lo, hi) ==
    IF lo >= hi THEN lo
    ELSE LET mid == lo + ((hi - lo) \div 2)
         IN  IF RLess(arr[mid + 1], key)
             THEN BinarySearchLeft(arr, key, mid + 1, hi)
             ELSE BinarySearchLeft(arr, key, lo, mid)

searchsorted(arr, key) == BinarySearchLeft(arr, key, 0, Len(arr))

Clip(i, lo, hi) == IF i < lo THEN lo ELSE IF i > hi THEN hi ELSE i

\* slope*(q - x_lo) + y_lo on the segment from (x_lo, y_lo) to (x_hi, y_hi).
Segment(x_lo, y_lo, x_hi, y_hi, q) ==
    RAdd(RMul(RDiv(RSub(y_hi, y_lo), RSub(x_hi, x_lo)), RSub(q, x_lo)), y_lo)

\* The value at q on the segment that ends at the 0-based sample hi.
OnSegment(xs, ys, q, hi) == Segment(xs[hi], ys[hi], xs[hi + 1], ys[hi + 1], q)

\* The interpolant over the sorted samples xs, ys evaluated at q.
Evaluate(xs, ys, fill_value, q) ==
    IF RLess(q, xs[1]) \/ RLess(xs[Len(xs)], q) THEN fill_value
    ELSE OnSegment(xs, ys, q, Clip(searchsorted(xs, q), 1, Len(xs) - 1))

\* Evaluate without the fill outside the range of the samples.
Extrapolate(xs, ys, fill_value, q) ==
    OnSegment(xs, ys, q, Clip(searchsorted(xs, q), 1, Len(xs) - 1))

First(samples) == [k \in DOMAIN samples |-> samples[k][1]]

Second(samples) == [k \in DOMAIN samples |-> samples[k][2]]

EvaluateSorted(samples, fill_value, q) ==
    Evaluate(First(samples), Second(samples), fill_value, q)

ExtrapolateSorted(samples, fill_value, q) ==
    Extrapolate(First(samples), Second(samples), fill_value, q)

\* interp1d that extends the first and last segments beyond the source
\* range instead of filling.
interp1d_extrapolates(x, y, fill_value, q) ==
    ExtrapolateSorted(SortSamples(x, y, Len(x)), fill_value, q)

\* The interpolant evaluated at q; x, y have at least two samples.
interp1d(x, y, fill_value, q) ==
    EvaluateSorted(SortSamples(x, y, Len(x)), fill_value, q)

\* The outcome of remap_column: the pair (p, interpolate(p)), or the
\* exception raised.
ColumnReturned(p_, values_) ==
    [ok |-> TRUE, p |-> p_, values |-> values_, error |-> ""]

ColumnRaised(error_) == [ok |-> FALSE, p |-> <<>>, values |-> <<>>, error |-> error_]

\* interpolate(p) for the target pressures p (raised or returned).
Interpolated(variable, pressure_, fill_value, p) ==
    IF ~p.ok THEN ColumnRaised(p.error)
    ELSE ColumnReturned(p.value,
             [i \in DOMAIN p.value |->
                 interp1d(pressure_, variable, fill_value, p.value[i])])

\* What the installed scipy makes of a column of a single sample.  Releases
\* that require two samples raise ValueError when the interpolant is built
\* ("raises").  The others build it and return fill_value away from the
\* sample's pressure; at that pressure numpy.interp, which evaluates
\* float64 samples, gives the sample's value ("value"), and the generic
\* linear path, which evaluates the rest, a slope of 0/0 and so NaN ("nan").
SingleSample == {"raises", "nan", "value"}

\* interpolate(p) over a single sample, own being the result at the
\* sample's own pressure.
OneSample(pressure_, fill_value, p, own) ==
    IF ~p.ok THEN ColumnRaised(p.error)
    ELSE ColumnReturned(p.value,
             [i \in DOMAIN p.value |->
                 IF p.value[i] = pressure_[1] THEN own ELSE fill_value])

(* VerticalRemapper.remap_column with the scipy that treats a single       *)
(* sample as said by single: the interpolant is built first, then the      *)
(* target pressures are computed and the interpolant is evaluated there.   *)
(* With no sample at all, or with samples and pressures of different       *)
(* lengths, interp1d raises.                                               *)
remap_column_with(single, self, variable, pressure_, sp, units, converter, fill_value) ==
    IF Len(variable) # Len(pressure_) \/ Len(pressure_) = 0
    THEN ColumnRaised("ValueError")
    ELSE IF Len(pressure_) = 1
    THEN IF single = "raises" THEN ColumnRaised("ValueError")
         ELSE OneSample(pressure_, fill_value,
                        VerticalRemapper_pressure(self, sp, units, converter),
                        IF single = "value" THEN variable[1] ELSE NonFinite)
    ELSE Interpolated(variable, pressure_, fill_value,
                      VerticalRemapper_pressure(self, sp, units, converter))

\* VerticalRemapper.remap_column: the outcomes that the builds give.
remap_column(self, variable, pressure_, sp, units, converter, fill_value) ==
    {remap_column_with(single, self, variable, pressure_, sp, units,
                       converter, fill_value) : single \in SingleSample}

---------------------------------------------------------------------------
(* era5/cf_netcdf.py: netCDF4 datasets, CfDataset and CfVariable.           *)
(*                                                                         *)
(* A dataset is its dimensions and its variables, both in file order.  An  *)
(* attribute value is a sequence of characters.  A variable's data is the  *)
(* C-order flattening of its array, <<>> while nothing was written.        *)

Dimension(name_, size_) == [name |-> name_, size |-> size_]

Attribute(name_, value_) == [name |-> name_, value |-> value_]

Variable(name_, datatype_, dimensions_, attrs_, data_) ==
    [name |-> name_, datatype |-> datatype_, dimensions |-> dimensions_,
     attrs |-> attrs_, data |-> data_]

Dataset(dimensions_, variables_) ==
    [dimensions |-> dimensions_, variables |-> variables_]

EmptyDataset == Dataset(<<>>, <<>>)

Names(seq) == {seq[k].name : k \in DOMAIN seq}

\* The entry called name of the ordered mapping seq (name is a key of it).
Lookup(seq, name) == seq[CHOOSE k \in DOMAIN seq : seq[k].name = name]

\* variable.ncattrs()
ncattrs(variable) == [k \in DOMAIN variable.attrs |-> variable.attrs[k].name]

HasAttr(variable, name) == name \in Names(variable.attrs)

\* variable.getncattr(name), for an attribute the variable has; without it
\* netCDF4 raises AttributeError.
getncattr(variable, name) == Lookup(variable.attrs, name).value

\* variable.setncattr(name, value)
setncattr(variable, name, value) ==
    [variable EXCEPT !.attrs =
        IF name \in Names(@)
        THEN [k \in DOMAIN @ |-> IF @[k].name = name THEN Attribute(name, value)
                                 ELSE @[k]]
        ELSE Append(@, Attribute(name, value))]

\* The outcome of a dataset operation: the dataset as the operation left
\* it, and the exception raised if any.
DsReturned(ds_) == [ok |-> TRUE, ds |-> ds_, error |-> ""]

DsRaised(ds_, error_) == [ok |-> FALSE, ds |-> ds_, error |-> error_]

\* The dataset with its variable called name replaced by variable.
WithVariable(ds, name, variable) ==
    [ds EXCEPT !.variables =
        [k \in DOMAIN @ |-> IF @[k].name = name THEN variable ELSE @[k]]]

RECURSIVE Product(_, _)
Product(shape, k) == IF k > Len(shape) THEN 1 ELSE shape[k] * Product(shape, k + 1)

\* variable.shape in its dataset.
ShapeOf(ds, variable) ==
    [k \in DOMAIN variable.dimensions |->
        Lookup(ds.dimensions, variable.dimensions[k]).size]

\* The 0-based multi-index of the 0-based flat (C-order) index f.
Unravel(f, shape) ==
    [k \in DOMAIN shape |-> (f \div Product(shape, k + 1)) % shape[k]]

\* The 0-based flat index of a 0-based multi-index.
RECURSIVE Ravel(_, _, _)
Ravel(index, shape, k) ==
    IF k > Len(shape) THEN 0
    ELSE index[k] * Product(shape, k + 1) + Ravel(index, shape, k + 1)

\* Data of the shape `shape` broadcasts to the shape `to`: with the shapes
\* aligned at their last axes, every axis has the size asked for, or 1.
Broadcastable(shape, to) ==
    /\ Len(shape) <= Len(to)
    /\ \A k \in DOMAIN shape : shape[k] \in {1, to[k + Len(to) - Len(shape)]}

\* numpy.broadcast_to(data, to), flattened in C order.
BroadcastTo(data, shape, to) ==
    [f \in 1..Product(to, 1) |->
        data[Ravel([k \in DOMAIN shape |->
                       IF shape[k] = 1 THEN 0
                       ELSE Unravel(f - 1, to)[k + Len(to) - Len(shape)]],
                   shape, 1) + 1]]

\* The variable called name holding data.
Holding(ds, name, data) ==
    DsReturned(WithVariable(ds, name,
                   [Lookup(ds.variables, name) EXCEPT !.data = data]))

(* netCDF4 Variable.__setitem__ for variable[...] = data, data having the  *)
(* shape `shape` and the variable the shape `to`.  Data of the variable's  *)
(* size are stored in their order (reshaped if need be).  Data of another  *)
(* size are broadcast to the variable's shape by a netCDF4 that broadcasts *)
(* (broadcasts), which raises ValueError when they cannot be.  A netCDF4   *)
(* that does not broadcast gives data of another number of axes the        *)
(* variable's shape first, which raises ValueError, and raises IndexError  *)
(* for data of the same number of axes that do not fill the slice.         *)
Assign(broadcasts, ds, name, data, shape, to) ==
    IF Product(shape, 1) = Product(to, 1) THEN Holding(ds, name, data)
    ELSE IF ~broadcasts
    THEN DsRaised(ds, IF Len(shape) # Len(to) THEN "ValueError" ELSE "IndexError")
    ELSE IF ~Broadcastable(shape, to) THEN DsRaised(ds, "ValueError")
    ELSE Holding(ds, name, BroadcastTo(data, shape, to))

\* netCDF4 Dataset.createDimension: a name in use is a RuntimeError.
createDimension(ds, name, size) ==
    IF name \in Names(ds.dimensions) THEN DsRaised(ds, "RuntimeError")
    ELSE DsReturned([ds EXCEPT !.dimensions = Append(@, Dimension(name, size))])

\* netCDF4 Dataset.createVariable: every dimension must exist in the
\* dataset (KeyError otherwise) and the name must be free (RuntimeError);
\* fill is the _FillValue attribute to set at creation, or <<>>.
createVariable(ds, name, datatype, dimensions, fill) ==
    IF \E k \in DOMAIN dimensions : dimensions[k] \notin Names(ds.dimensions)
    THEN DsRaised(ds, "KeyError")
    ELSE IF name \in Names(ds.variables) THEN DsRaised(ds, "RuntimeError")
    ELSE DsReturned([ds EXCEPT !.variables =
                        Append(@, Variable(name, datatype, dimensions, fill, <<>>))])

RECURSIVE SetAttrs(_, _, _)
SetAttrs(variable, attrs, k) ==
    IF k > Len(attrs) THEN variable
    ELSE SetAttrs(setncattr(variable, attrs[k].name, attrs[k].value), attrs, k + 1)

\* The attributes attrs set on the variable called name that r created.
WithAttrs(r, name, attrs) ==
    IF ~r.ok THEN r
    ELSE DsReturned(WithVariable(r.ds, name,
                        SetAttrs(Lookup(r.ds.variables, name), attrs, 1)))

\* CfDataset.create_variable
create_variable(self, name, datatype, dimensions, attrs) ==
    WithAttrs(createVariable(self, name, datatype, dimensions, <<>>), name, attrs)

\* The coordinate variable of the dimension that r created.
CoordinateOf(r, name, datatype, attrs) ==
    IF ~r.ok THEN r ELSE create_variable(r.ds, name, datatype, <<name>>, attrs)

\* CfDataset.create_coordinate
create_coordinate(self, name, length, datatype, attrs) ==
    CoordinateOf(createDimension(self, name, length), name, datatype, attrs)

\* CfDataset.copy_attribute: self.variables[variable.name] must exist
\* (KeyError) and the source variable must have the attribute.
copy_attribute(self, variable, name) ==
    IF variable.name \notin Names(self.variables) THEN DsRaised(self, "KeyError")
    ELSE DsReturned(WithVariable(self, variable.name,
                        setncattr(Lookup(self.variables, variable.name), name,
                                  getncattr(variable, name))))

\* copy_dimension without the size: createDimension(dimension.name) makes
\* an unlimited dimension, of size 0.
copy_dimension_unlimited(self, dimension) ==
    createDimension(self, dimension.name, 0)

\* CfDataset.copy_dimension
copy_dimension(self, dimension) ==
    createDimension(self, dimension.name, dimension.size)

(* CfDataset.copy_variable_data: v[...] = variable[...], variable being a  *)
(* variable of dataset and v the variable of its name in self (KeyError if *)
(* there is none).  broadcasts tells the installed netCDF4.                *)
copy_variable_data(broadcasts, self, variable, dataset) ==
    IF variable.name \notin Names(self.variables) THEN DsRaised(self, "KeyError")
    ELSE Assign(broadcasts, self, variable.name, variable.data,
                ShapeOf(dataset, variable),
                ShapeOf(self, Lookup(self.variables, variable.name)))

RECURSIVE CopyAttributes(_, _, _)

\* The loop over the attributes goes on after the copy r of the k-th.
NextAttribute(r, variable, k) ==
    IF r.ok THEN CopyAttributes(r.ds, variable, k + 1) ELSE r

\* The attributes of variable other than _FillValue, copied one by one.
CopyAttributes(self, variable, k) ==
    IF k > Len(variable.attrs) THEN DsReturned(self)
    ELSE IF variable.attrs[k].name = "_FillValue"
         THEN CopyAttributes(self, variable, k + 1)
         ELSE NextAttribute(copy_attribute(self, variable, variable.attrs[k].name),
                            variable, k)

RECURSIVE copy_variable(_, _, _)
RECURSIVE copy_variable_metadata(_, _, _)
RECURSIVE CopyDimensionsOf(_, _, _, _)

\* self.copy_variable(dataset.variables[dimension.name], dataset), after
\* copy_dimension gave r.
CopyCoordinate(r, dimension, dataset) ==
    IF ~r.ok THEN r
    ELSE IF dimension.name \notin Names(dataset.variables)
    THEN DsRaised(r.ds, "KeyError")
    ELSE copy_variable(r.ds, Lookup(dataset.variables, dimension.name), dataset)

\* except RuntimeError: raised again only when the size of the dimension
\* differs from the size it has in self.
ExceptRuntimeError(r, dimension) ==
    IF r.ok \/ r.error # "RuntimeError" THEN r
    ELSE IF dimension.size # Lookup(r.ds.dimensions, dimension.name).size THEN r
    ELSE DsReturned(r.ds)

\* The loop over the dimensions goes on after the try statement gave r.
NextDimension(r, variable, dataset, k) ==
    IF r.ok THEN CopyDimensionsOf(r.ds, variable, dataset, k + 1) ELSE r

\* The try statement for one dimension.
TryCopyDimension(self, dimension, dataset) ==
    ExceptRuntimeError(
        CopyCoordinate(copy_dimension(self, dimension), dimension, dataset),
        dimension)

(* The loop of copy_variable_metadata over variable.get_dims(), from the   *)
(* k-th dimension on.  The try block holds copy_dimension and the copy of  *)
(* the coordinate variable; a RuntimeError from either is dropped when the *)
(* size of this dimension is the size it has in self.                      *)
CopyDimensionsOf(self, variable, dataset, k) ==
    IF k > Len(variable.dimensions) THEN DsReturned(self)
    ELSE NextDimension(
             TryCopyDimension(self,
                 Lookup(dataset.dimensions, variable.dimensions[k]), dataset),
             variable, dataset, k)

\* createVariable with the _FillValue of variable, after the dimensions
\* were copied (r).
CreateLike(r, variable) ==
    IF ~r.ok THEN r
    ELSE createVariable(r.ds, variable.name, variable.datatype,
                        variable.dimensions,
                        SelectSeq(variable.attrs,
                                  LAMBDA at : at.name = "_FillValue"))

\* The attributes of variable copied to the variable that r created.
AttributesOf(r, variable) ==
    IF ~r.ok THEN r ELSE CopyAttributes(r.ds, variable, 1)

\* CfDataset.copy_variable_metadata
copy_variable_metadata(self, variable, dataset) ==
    AttributesOf(CreateLike(CopyDimensionsOf(self, variable, dataset, 1), variable),
                 variable)

\* copy_variable that leaves the data out.
copy_variable_without_data(self, variable, dataset) ==
    copy_variable_metadata(self, variable, dataset)

\* v[...] = variable[...] when the metadata were copied (r): v was made
\* on dimensions of the sizes they have in dataset, so that the data have
\* the shape of v with any netCDF4.
DataOf(r, variable, dataset) ==
    IF ~r.ok THEN r ELSE copy_variable_data(TRUE, r.ds, variable, dataset)

\* CfDataset.copy_variable
copy_variable(self, variable, dataset) ==
    DataOf(copy_variable_metadata(self, variable, dataset), variable, dataset)

\* The outcome of a generator over variables: the variables yielded before
\* it ended or raised.
Yielded(variables_) == [ok |-> TRUE, variables |-> variables_, error |-> ""]

YieldRaised(error_) == [ok |-> FALSE, variables |-> <<>>, error |-> error_]

\* CfDataset.dimension_variables, collected into a tuple:
\* self.variables[name] for every dimension name, a KeyError for a
\* dimension without a variable of its name.
dimension_variables(self) ==
    IF \E k \in DOMAIN self.dimensions :
           self.dimensions[k].name \notin Names(self.variables)
    THEN YieldRaised("KeyError")
    ELSE Yielded([k \in DOMAIN self.dimensions |->
                     Lookup(self.variables, self.dimensions[k].name)])

\* CfDataset.is_pressure_coordinate, for a variable with a units attribute.
is_pressure_coordinate(variable) ==
    \E k \in DOMAIN basic_converter :
        /\ match(basic_converter[k].regex, getncattr(variable, "units"))
        /\ UnitsEq(basic_converter[k].type, pressure)

RECURSIVE PressureFrom(_, _, _)

(* The loop of pressure_coordinates over the lazy dimension_variables,     *)
(* from the k-th dimension on, with the pressure coordinates found so far: *)
(* for each dimension in turn, self.variables[name] raises KeyError when   *)
(* there is no variable of its name and getncattr("units") raises          *)
(* AttributeError when that variable has no units.                         *)
PressureFrom(self, k, found) ==
    IF k > Len(self.dimensions) THEN Yielded(found)
    ELSE IF self.dimensions[k].name \notin Names(self.variables)
    THEN YieldRaised("KeyError")
    ELSE IF ~HasAttr(Lookup(self.variables, self.dimensions[k].name), "units")
    THEN YieldRaised("AttributeError")
    ELSE PressureFrom(self, k + 1,
             IF is_pressure_coordinate(Lookup(self.variables,
                                              self.dimensions[k].name))
             THEN Append(found, Lookup(self.variables, self.dimensions[k].name))
             ELSE found)

\* CfDataset.pressure_coordinates, collected into a tuple: the dimension
\* variables that are pressure coordinates, in dimension order.
pressure_coordinates(self) == PressureFrom(self, 1, <<>>)

\* The 0-based position of name in the sequence names.
IndexOf(names, name) ==
    (CHOOSE k \in DOMAIN names :
        names[k] = name /\ \A j \in 1..(k - 1) : names[j] # name) - 1

NotRemappable ==
    [vertically_remappable |-> FALSE, pressure |-> <<>>, pressure_units |-> <<>>,
     pressure_index |-> 0, coordinate |-> "", pressure_ndim |-> 0]

\* The pressure coordinates that CfVariable.__init__ accepts for variable:
\* another name than the variable's, and one of its dimensions.
CoordinatesOf(variable, coordinates) ==
    SelectSeq(coordinates,
              LAMBDA c : c.name # variable.name
                            /\ \E k \in DOMAIN variable.dimensions :
                                  variable.dimensions[k] = c.name)

\* CfVariable.__init__ accepting a variable only when exactly one pressure
\* coordinate is among its dimensions.
WithOneCoordinate(variable, found) ==
    IF Len(found) # 1 THEN NotRemappable
    ELSE [vertically_remappable |-> TRUE,
          pressure |-> found[1].data,
          pressure_units |-> getncattr(found[1], "units"),
          pressure_index |-> IndexOf(variable.dimensions, found[1].name),
          coordinate |-> found[1].name,
          pressure_ndim |-> Len(found[1].dimensions)]

\* The attributes CfVariable.__init__ sets for the accepted coordinates;
\* pressure = coordinate[...] is an array of the coordinate variable's
\* dimensions (pressure_ndim of them), kept here flattened.
WithCoordinates(variable, found) ==
    IF found = <<>> THEN NotRemappable
    ELSE [vertically_remappable |-> TRUE,
          pressure |-> found[1].data,
          pressure_units |-> getncattr(found[1], "units"),
          pressure_index |-> IndexOf(variable.dimensions, found[1].name),
          coordinate |-> found[1].name,
          pressure_ndim |-> Len(found[1].dimensions)]

\* CfVariable.__init__: the first accepted pressure coordinate decides.
CfVariable(variable, coordinates) ==
    WithCoordinates(variable, CoordinatesOf(variable, coordinates))

---------------------------------------------------------------------------
(* era5/vertical_remap.py: VerticalRemapper.remap_all.                      *)

\* The sequence without its element at the 0-based position axis.
WithoutAxis(seq, axis) ==
    [k \in 1..(Len(seq) - 1) |-> IF k <= axis THEN seq[k] ELSE seq[k + 1]]

\* The shape of moveaxis(data, axis, -1): the axis comes last.
MovedShape(shape, axis) == Append(WithoutAxis(shape, axis), shape[axis + 1])

\* The f-th value (1-based, C order) of moveaxis(data, axis, -1).
MoveAxis(data, shape, axis, f) ==
    LET moved == Unravel(f - 1, MovedShape(shape, axis))
        index == [k \in DOMAIN shape |->
                     IF k - 1 < axis THEN moved[k]
                     ELSE IF k - 1 = axis THEN moved[Len(shape)]
                     ELSE moved[k - 1]]
    IN  data[Ravel(index, shape, 1) + 1]

(* reshape(moveaxis(data, axis, -1), (size // length, length)), for a      *)
(* length that divides the size: the rows are the successive runs of       *)
(* length values of the moved data.  length is the size of the pressure   *)
(* coordinate variable, which need not be the size of the dimension.       *)
ColumnsOf(data, shape, axis, length) ==
    [i \in 1..(Product(shape, 1) \div length) |->
        [l \in 1..length |->
            MoveAxis(data, shape, axis, (i - 1) * length + l)]]

\* moveaxis(reshape(rows, new_shape), -1, axis), flattened: the rows laid
\* end to end take the moved shape, and the last axis goes back to its
\* place.
FromColumns(rows, shape, axis) ==
    [f \in 1..Product(shape, 1) |->
        LET index == Unravel(f - 1, shape)
            g == Ravel(Append(WithoutAxis(index, axis), index[axis + 1]),
                       MovedShape(shape, axis), 1)
        IN  rows[(g \div Len(rows[1])) + 1][(g % Len(rows[1])) + 1]]

\* array[:count]
Take(array, count) == SubSeq(array, 1, count)

\* remap(): the surface pressure variable and the surface names that
\* remap_all is called with.
surface_pressure_name == "sp"

surface_variables == [t |-> "t2m"]

\* The outcome of the column loop: the rows of z (pressures) and y (values).
RowsReturned(z_, y_, handed_) == [ok |-> TRUE, z |-> z_, y |-> y_, error |-> "", handed |-> handed_]

RowsRaised(error_, handed_) == [ok |-> FALSE, z |-> <<>>, y |-> <<>>, error |-> error_, handed |-> handed_]

(* The loop of remap_all over the columns, from column i (1-based) on.     *)
(* x: the columns; x_surface: the raveled surface values, or none (has_sv  *)
(* false); indices, sp1d: the raveled searchsorted results and surface     *)
(* pressures.  A row of z and y has the length of a row of x, so a result  *)
(* of another length (other than 1) cannot be stored in it.                *)
RECURSIVE ColumnLoop(_, _, _, _, _, _, _, _, _, _, _, _)

\* z[i,:], y[i,:] = r: a result of one level is broadcast along the row.
StoreRow(done, r, length) ==
    RowsReturned(Append(done.z, [l \in 1..length |->
                                    IF Len(r.p) = 1 THEN r.p[1] ELSE r.p[l]]),
                 Append(done.y, [l \in 1..length |->
                                    IF Len(r.values) = 1 THEN r.values[1]
                                    ELSE r.values[l]]),
                 done.handed)

\* The rest of the loop after remap_column gave r for column i.
AfterColumn(single, self, x, has_sv, x_surface, indices, sp1d, pressure_, units, converter, i, done, r) ==
    IF ~r.ok THEN RowsRaised(r.error, done.handed)
    ELSE IF Len(r.p) # Len(x[i]) /\ Len(r.p) # 1
    THEN RowsRaised("ValueError", done.handed)
    ELSE ColumnLoop(single, self, x, has_sv, x_surface, indices, sp1d,
                    pressure_, units, converter, i + 1,
                    StoreRow(done, r, Len(x[i])))

\* column = append(x[i,:count], xs) is remapped from the pressures p.
RemapSamples(single, self, column_, p, sp, units, converter) ==
    remap_column_with(single, self, column_, p, sp, units, converter, column_[1])

\* The arguments of a call of remap_column with fill_value=column[0].
Handed(column_, p_, sp_) ==
    [column |-> column_, p |-> p_, sp |-> sp_, fill |-> column_[1]]

\* What the loop hands to remap_column for column i: the first count
\* values of the column and the value xs after them, the first count
\* pressures and the surface pressure after them.
Samples(x, has_sv, x_surface, indices, sp1d, pressure_, i) ==
    Handed(Append(Take(x[i], indices[i]),
                  IF has_sv THEN x_surface[i]
                  ELSE PyItem(x[i], indices[i] - 1)),
           Append(Take(pressure_, indices[i]), sp1d[i]),
           sp1d[i])

\* The loop's pass for column i, given what it hands to remap_column.
RemapHanded(single, self, x, has_sv, x_surface, indices, sp1d, pressure_, units, converter, i, done, s) ==
    AfterColumn(single, self, x, has_sv, x_surface, indices, sp1d,
                pressure_, units, converter, i,
                [done EXCEPT !.handed = Append(@, s)],
                RemapSamples(single, self, s.column, s.p, s.sp, units,
                             converter))

ColumnLoop(single, self, x, has_sv, x_surface, indices, sp1d, pressure_, units, converter, i, done) ==
    IF i > Len(x) THEN done
    ELSE IF i > Len(indices) \/ (has_sv /\ i > Len(x_surface))
    THEN RowsRaised("IndexError", done.handed)
    ELSE RemapHanded(single, self, x, has_sv, x_surface, indices, sp1d,
                     pressure_, units, converter, i, done,
                     Samples(x, has_sv, x_surface, indices, sp1d, pressure_, i))

\* array * conversion
Scaled(array, conversion) == [k \in DOMAIN array |-> RMul(array[k], conversion)]

RECURSIVE CopyOtherDimensions(_, _, _, _, _)

\* The coordinate variable of the k-th dimension, after copy_dimension
\* gave r.
OtherCoordinate(r, levels, name) ==
    IF ~r.ok THEN r
    ELSE IF name \notin Names(levels.variables) THEN DsRaised(r.ds, "KeyError")
    ELSE copy_variable(r.ds, Lookup(levels.variables, name), levels)

\* The loop over the dimensions goes on after the k-th was copied (r).
NextOther(r, levels, names, pressure_index, k) ==
    IF ~r.ok THEN r
    ELSE CopyOtherDimensions(r.ds, levels, names, pressure_index, k + 1)

(* The dimensions other than sigma_level of the first remappable variable: *)
(* one not yet in the new dataset is copied with its coordinate variable.  *)
CopyOtherDimensions(output, levels, names, pressure_index, k) ==
    IF k > Len(names) THEN DsReturned(output)
    ELSE IF names[k] = names[pressure_index + 1]
            \/ names[k] \in Names(output.dimensions)
    THEN CopyOtherDimensions(output, levels, names, pressure_index, k + 1)
    ELSE NextOther(
             OtherCoordinate(
                 copy_dimension(output, Lookup(levels.dimensions, names[k])),
                 levels, names[k]),
             levels, names, pressure_index, k)

\* linspace(1, n, num=n)
linspace(n) == [k \in 1..n |-> Num(k)]

\* sigma_level's attribute positive and its values, after
\* create_coordinate gave r.
SigmaLevels(r, size) ==
    IF ~r.ok THEN r
    ELSE DsReturned(WithVariable(r.ds, "sigma_level",
             [setncattr(Lookup(r.ds.variables, "sigma_level"),
                        "positive", <<"d", "o", "w", "n">>)
                 EXCEPT !.data = linspace(size)]))

\* The other dimensions of the variable, after sigma_level (r).
OtherDimensions(r, levels, names, variable) ==
    IF ~r.ok THEN r
    ELSE CopyOtherDimensions(r.ds, levels, names, variable.pressure_index, 1)

\* The variable p, after the dimensions (r).
PressureVariable(r, names, variable) ==
    IF ~r.ok THEN r
    ELSE create_variable(r.ds, "p", "float", names,
             <<Attribute("units", variable.pressure_units),
               Attribute("standard_name",
                         <<"a", "i", "r", "_", "p", "r", "e", "s", "s",
                           "u", "r", "e">>)>>)

(* The branch of remap_all taken for the first remappable variable         *)
(* (added_p false): the sigma_level coordinate, the other dimensions, and  *)
(* the variable p.  len(self.level_map) raises TypeError for None.         *)
AddPressure(self, output, levels, names, variable) ==
    IF ~self.level_map.given THEN DsRaised(output, "TypeError")
    ELSE PressureVariable(
             OtherDimensions(
                 SigmaLevels(
                     create_coordinate(output, "sigma_level",
                                       Len(self.level_map.map), "int", <<>>),
                     Len(self.level_map.map)),
                 levels, names, variable),
             names, variable)

\* The outcome of the surface value lookup: the raveled values, or none.
SurfaceReturned(has_, values_) ==
    [ok |-> TRUE, has |-> has_, values |-> values_, error |-> ""]

SurfaceRaised(error_) == [ok |-> FALSE, has |-> FALSE, values |-> <<>>, error |-> error_]

\* array * conversion, for the looked up conversion c.
Converted(data, c) ==
    IF ~c.ok THEN SurfaceRaised(c.error)
    ELSE SurfaceReturned(TRUE, Scaled(data, c.factor))

\* The surface variable sv in the units of the level variable parent.
SurfaceOf(sv, parent, converter) ==
    IF ~HasAttr(sv, "units") \/ ~HasAttr(parent, "units")
    THEN SurfaceRaised("AttributeError")
    ELSE Converted(sv.data, convert(converter, getncattr(sv, "units"),
                                    getncattr(parent, "units")))

(* The surface values of a remappable variable.  getncattr raises          *)
(* AttributeError for a missing units attribute, which the except KeyError *)
(* clause does not handle.                                                 *)
SurfaceValues(parent, surface, converter) ==
    IF parent.name \notin DOMAIN surface_variables
    THEN SurfaceReturned(FALSE, <<>>)
    ELSE IF surface_variables[parent.name] \notin Names(surface.variables)
    THEN SurfaceRaised("KeyError")
    ELSE SurfaceOf(Lookup(surface.variables, surface_variables[parent.name]),
                   parent, converter)

\* The surface pressure variable sp in the given units.
PressureOf(sp, units, converter) ==
    IF ~HasAttr(sp, "units") THEN SurfaceRaised("AttributeError")
    ELSE Converted(sp.data, convert(converter, getncattr(sp, "units"), units))

\* The surface pressure in the units of the pressure coordinate.
SurfacePressure(variable, surface, converter) ==
    IF surface_pressure_name \notin Names(surface.variables)
    THEN SurfaceRaised("KeyError")
    ELSE PressureOf(Lookup(surface.variables, surface_pressure_name),
                    variable.pressure_units, converter)

\* What one pass of the loop body did: the new dataset, whether p was
\* added, whether this pass wrote p, and the exception raised if any.
Pass(ds_, added_p_, wrote_p_, error_) ==
    [ok |-> error_ = "", ds |-> ds_, added_p |-> added_p_, wrote_p |-> wrote_p_,
     error |-> error_, handed |-> <<>>]

\* The pass with what its column loop handed to remap_column.
Handing(pass, handed_) == [pass EXCEPT !.handed = handed_]

\* The names of the remapped variable's dimensions: sigma_level in the
\* place of the pressure dimension.
RemappedDimensions(v, variable) ==
    [k \in DOMAIN v.dimensions |->
        IF k = variable.pressure_index + 1 THEN "sigma_level"
        ELSE v.dimensions[k]]

\* new_dataset.variables[name][...] = the rows, moved back to the axis,
\* after the write before it gave r.
WriteRows(broadcasts, r, name, rows, shape, axis) ==
    IF ~r.ok THEN r
    ELSE Assign(broadcasts, r.ds, name, FromColumns(rows, shape, axis), shape,
                ShapeOf(r.ds, Lookup(r.ds.variables, name)))

\* The pass that ended with the writes (r) to the dataset ds.
Written(ds, add_p, r) ==
    IF r.ok THEN Pass(r.ds, TRUE, add_p, "") ELSE Pass(ds, TRUE, FALSE, r.error)

(* The end of the loop body: when this pass added p, z is written to p,    *)
(* and then y to the remapped variable.  y and z have the shape of the     *)
(* level data, the new variables have sigma_level, of the size of the      *)
(* level map, in the place of the pressure dimension: where the two sizes  *)
(* differ netCDF4 broadcasts a pressure dimension of size 1 along          *)
(* sigma_level if it broadcasts at all, and refuses the data otherwise.    *)
WriteRemapped(build, self, ds, add_p, v, variable, shape, rows) ==
    Handing(
        IF ~rows.ok THEN Pass(ds, TRUE, FALSE, rows.error)
        ELSE Written(ds, add_p,
                 WriteRows(build.broadcasts,
                           IF add_p
                           THEN WriteRows(build.broadcasts, DsReturned(ds), "p",
                                          rows.z, shape, variable.pressure_index)
                           ELSE DsReturned(ds),
                           v.name, rows.y, shape, variable.pressure_index)),
        rows.handed)

\* The loop body once the surface values sv and the surface pressure sp
\* are read: the reshape by the size of the pressure coordinate, then
\* searchsorted, which raises ValueError for a pressure array that is not
\* one-dimensional, then the loop over the columns.
RemapColumns(build, self, ds, add_p, v, variable, converter, shape, sv, sp) ==
    IF ~sv.ok THEN Pass(ds, TRUE, FALSE, sv.error)
    ELSE IF Len(variable.pressure) = 0
    THEN Pass(ds, TRUE, FALSE, "ZeroDivisionError")
    ELSE IF Product(shape, 1) % Len(variable.pressure) # 0
    THEN Pass(ds, TRUE, FALSE, "ValueError")
    ELSE IF ~sp.ok THEN Pass(ds, TRUE, FALSE, sp.error)
    ELSE IF variable.pressure_ndim # 1
    THEN Pass(ds, TRUE, FALSE, "ValueError")
    ELSE WriteRemapped(build, self, ds, add_p, v, variable, shape,
             ColumnLoop(build.single, self,
                        ColumnsOf(v.data, shape, variable.pressure_index,
                                  Len(variable.pressure)),
                        sv.has, sv.values,
                        [k \in DOMAIN sp.values |->
                            searchsorted(variable.pressure, sp.values[k])],
                        sp.values, variable.pressure, variable.pressure_units,
                        converter, 1, RowsReturned(<<>>, <<>>, <<>>)))

\* The loop body once the remapped variable is created (r) with its
\* attributes.
AfterCreate(build, self, levels, surface, add_p, v, variable, converter, r) ==
    IF ~r.ok THEN Pass(r.ds, TRUE, FALSE, r.error)
    ELSE RemapColumns(build, self, r.ds, add_p, v, variable, converter,
                      ShapeOf(levels, v),
                      SurfaceValues(v, surface, converter),
                      SurfacePressure(variable, surface, converter))

\* The exception of createVariable for a dimension that the dataset does
\* not have: KeyError in the netCDF4 releases that look the name up in the
\* group's dimensions (keyed), ValueError in those that search for it.
MissingDimension(build, r) ==
    IF r.error = "KeyError" /\ ~build.keyed THEN DsRaised(r.ds, "ValueError")
    ELSE r

\* createVariable(v.name, ...) and the copy of v's attributes.
CreateRemapped(build, ds, v, names) ==
    LET r == createVariable(ds, v.name, v.datatype, names, <<>>)
    IN  IF ~r.ok THEN MissingDimension(build, r) ELSE CopyAttributes(r.ds, v, 1)

\* The loop body writing p in every pass, whatever the flag.
AfterPressure_writes_p_again(build, self, levels, surface, added, v, variable, converter, r) ==
    IF ~r.ok THEN Pass(r.ds, added, FALSE, r.error)
    ELSE AfterCreate(build, self, levels, surface, TRUE, v, variable,
                     converter,
                     CreateRemapped(build, r.ds, v,
                                    RemappedDimensions(v, variable)))

\* The loop body once p is there (r; added is the flag before the pass).
AfterPressure(build, self, levels, surface, added, v, variable, converter, r) ==
    IF ~r.ok THEN Pass(r.ds, added, FALSE, r.error)
    ELSE AfterCreate(build, self, levels, surface, ~added, v, variable,
                     converter,
                     CreateRemapped(build, r.ds, v,
                                    RemappedDimensions(v, variable)))

(* The body of remap_all's loop for a remappable variable v.  build tells  *)
(* the installed libraries apart: what scipy makes of a single sample      *)
(* (single), a netCDF4 that broadcasts the data written (broadcasts), and  *)
(* one that raises KeyError for a missing dimension (keyed).               *)
RemapOne(build, self, levels, surface, output, added, v, variable, converter) ==
    AfterPressure(build, self, levels, surface, added, v, variable, converter,
        IF added THEN DsReturned(output)
        ELSE AddPressure(self, output, levels, RemappedDimensions(v, variable),
                         variable))

---------------------------------------------------------------------------
(* pressure and remap_column called on small inputs.                        *)

MaxMapLen == 2

MaxLevel == 3

Ints(seq) == [k \in DOMAIN seq |-> Num(seq[k])]

\* Coefficient tables a, b of two to four half-levels.
CoefficientTables ==
    {[a |-> Ints(<<0, 10>>), b |-> Ints(<<0, 1>>)],
     [a |-> Ints(<<0, 100, 1700, 100>>), b |-> Ints(<<0, 0, 0, 0>>)],
     [a |-> Ints(<<0, 0, 0>>), b |-> Ints(<<0, 1, 1>>)],
     [a |-> Ints(<<5, 15, 0, 0>>), b |-> <<Num(0), Rat(1, 4), Rat(1, 2), Num(1)>>]}

\* level_map arguments: None, and the tuples of one to MaxMapLen half-level
\* indices up to MaxLevel (some reach beyond a table's end).
LevelMaps ==
    {NoLevelMap} \cup
    {LevelMap(m) : m \in UNION {[1..n -> 0..MaxLevel] : n \in 1..MaxMapLen}}

TestRemappers ==
    {VerticalRemapper(t.a, t.b, <<"h", "P", "a">>, m) :
         t \in CoefficientTables, m \in LevelMaps}

NoRemapper == VerticalRemapper(<<>>, <<>>, <<>>, NoLevelMap)

SurfacePressures == {Num(1000), Num(950), Num(400)}

TargetUnits == {<<"h", "P", "a">>, <<"m", "b">>, <<"P", "a">>, <<"K">>}

\* Columns given to remap_column: source pressures, values and fill value.
Column(pressure_, variable_, fill_) ==
    [pressure |-> Ints(pressure_), variable |-> Ints(variable_),
     fill_value |-> Num(fill_)]

TestColumns ==
    {Column(<<100, 500, 900>>, <<1, 2, 3>>, 1),
     Column(<<100, 500, 900>>, <<1, 2, 3>>, 0),
     Column(<<100, 500, 900, 950>>, <<1, 2, 3, 7>>, 1),
     Column(<<900, 100, 500>>, <<3, 1, 2>>, -4),
     Column(<<50, 1000>>, <<8, 4>>, 8),
     Column(<<505>>, <<6>>, 5)}

NoColumn == Column(<<>>, <<>>, 0)

ColumnIdle ==
    /\ surface_pressure = Num(0)
    /\ pressure_units = <<>>
    /\ column = NoColumn
    /\ pressures = ArrayRaised("")
    /\ remapped = ColumnRaised("")

NoCall == [op |-> "", name |-> ""]

RemapIdle ==
    /\ level_data = EmptyDataset
    /\ surface_data = EmptyDataset
    /\ new_dataset = EmptyDataset
    /\ handles = {}
    /\ position = 1
    /\ added_p = FALSE
    /\ error = ""
    /\ trace = <<>>
    /\ creations = [sigma_level |-> 0, p |-> 0]
    /\ p_writers = <<>>
    /\ handed = <<>>
    /\ prior = EmptyDataset
    /\ call = NoCall

UnitsIdle ==
    /\ source = <<>>
    /\ destination = <<>>
    /\ looked = Raised("", <<>>)
    /\ converted = Raised("", <<>>)

InitColumn ==
    /\ pc = "column"
    /\ UnitsIdle
    /\ remapper \in TestRemappers \cup {era_interim_remapper}
    /\ surface_pressure \in SurfacePressures
    /\ pressure_units \in TargetUnits
    /\ column = NoColumn
    /\ pressures = ArrayRaised("")
    /\ remapped = ColumnRaised("")
    /\ RemapIdle

\* remapper.pressure(surface_pressure, pressure_units, basic_converter)
Pressure ==
    /\ pc = "column"
    /\ pressures' = VerticalRemapper_pressure(remapper, surface_pressure,
                                              pressure_units, basic_converter)
    /\ pc' = "pressure_done"
    /\ UNCHANGED <<unitVars, remapper, surface_pressure, pressure_units,
                   column, remapped, remapVars>>

\* remapper.remap_column(variable, pressure, surface_pressure,
\*                       pressure_units, basic_converter, fill_value)
RemapColumn ==
    /\ pc = "column"
    /\ \E c \in TestColumns :
          /\ column' = c
          /\ remapped' \in remap_column(remapper, c.variable, c.pressure,
                                        surface_pressure, pressure_units,
                                        basic_converter, c.fill_value)
    /\ pc' = "column_done"
    /\ UNCHANGED <<unitVars, remapper, surface_pressure, pressure_units,
                   pressures, remapVars>>

NextColumn == Pressure \/ RemapColumn

SpecColumn == InitColumn /\ [][NextColumn]_vars

---------------------------------------------------------------------------
(* Unit strings given to the converter.                                     *)

u_m == <<"m">>
u_meter == <<"m", "e", "t", "e", "r">>
u_meters == <<"m", "e", "t", "e", "r", "s">>
u_Meters == <<"M", "e", "t", "e", "r", "s">>
u_atm == <<"a", "t", "m">>
u_atmosphere == <<"a", "t", "m", "o", "s", "p", "h", "e", "r", "e">>
u_atmospheres == <<"a", "t", "m", "o", "s", "p", "h", "e", "r", "e", "s">>
u_bar == <<"b", "a", "r">>
u_bars == <<"b", "a", "r", "s">>
u_Bar == <<"B", "a", "r">>
u_decibar == <<"d", "e", "c", "i", "b", "a", "r">>
u_decibars == <<"d", "e", "c", "i", "b", "a", "r", "s">>
u_Decibars == <<"D", "e", "c", "i", "b", "a", "r", "s">>
u_hPa == <<"h", "P", "a">>
u_mb == <<"m", "b">>
u_millibar == <<"m", "i", "l", "l", "i", "b", "a", "r">>
u_millibars == <<"m", "i", "l", "l", "i", "b", "a", "r", "s">>
u_mbar == <<"m", "b", "a", "r">>
u_Pa == <<"P", "a">>
u_pascal == <<"p", "a", "s", "c", "a", "l">>
u_pascals == <<"p", "a", "s", "c", "a", "l", "s">>
u_K == <<"K">>
u_foo == <<"f", "o", "o">>
u_kPa == <<"k", "P", "a">>
u_empty == <<>>
u_Pa_nl == <<"P", "a", "\n">>

\* The spellings the interface requires.
RequiredUnits ==
    {u_m, u_meter, u_meters, u_atm, u_atmosphere, u_atmospheres,
     u_bar, u_bars, u_decibar, u_decibars, u_hPa, u_mb,
     u_millibar, u_millibars, u_Pa, u_pascal, u_pascals, u_K}

\* Other strings: accepted variants, unknown units, the empty string and a
\* string that ends with a newline.
OtherUnits ==
    {u_Meters, u_Bar, u_Decibars, u_mbar, u_foo, u_kPa,
     u_empty, u_Pa_nl}

UnitStrings == RequiredUnits \cup OtherUnits

NoResult == Raised("", <<>>)

---------------------------------------------------------------------------
(* The units converter called on a pair of unit strings.                    *)

InitUnits ==
    /\ pc = "units"
    /\ source \in UnitStrings
    /\ destination \in UnitStrings
    /\ looked = NoResult
    /\ converted = NoResult
    /\ remapper = NoRemapper
    /\ ColumnIdle
    /\ RemapIdle

\* basic_converter.to_si(source)
ToSi ==
    /\ pc = "units"
    /\ looked' = to_si(basic_converter, source)
    /\ pc' = "looked"
    /\ UNCHANGED <<source, destination, converted, remapper, colVars, remapVars>>

\* basic_converter.convert(source, destination)
Convert ==
    /\ pc = "units"
    /\ converted' = convert(basic_converter, source, destination)
    /\ pc' = "converted"
    /\ UNCHANGED <<source, destination, looked, remapper, colVars, remapVars>>

NextUnits == ToSi \/ Convert

SpecUnits == InitUnits /\ [][NextUnits]_vars

---------------------------------------------------------------------------
(* remap_all called on small level and surface datasets.                    *)

MaxVars == 3

\* The values base, base + 1, ... of an array of n elements.
Filled(base, n) == [k \in 1..n |-> Num(base + k - 1)]

Chars_hPa == <<"h", "P", "a">>

Chars_Pa == <<"P", "a">>

Chars_K == <<"K">>

\* The dimensions a level dataset may have, in file order; nv has no
\* coordinate variable.
LevelDimensions ==
    <<Dimension("time", 1), Dimension("level", 3), Dimension("plev2", 2),
      Dimension("lat", 2), Dimension("nv", 2)>>

CoordinateVariables ==
    <<Variable("time", "f8", <<"time">>,
               <<Attribute("units", <<"h", "o", "u", "r", "s">>)>>, Ints(<<0>>)),
      Variable("level", "f8", <<"level">>,
               <<Attribute("units", Chars_hPa)>>, Ints(<<100, 500, 900>>)),
      Variable("plev2", "f8", <<"plev2">>,
               <<Attribute("units", Chars_Pa)>>, Ints(<<30000, 80000>>)),
      Variable("lat", "f8", <<"lat">>,
               <<Attribute("units", <<"d", "e", "g">>)>>, Ints(<<10, 20>>))>>

\* The data variables a level dataset may have: t(level, lat) with a
\* surface name, q(lat, level), u(time, level, lat), zs(lat),
\* cov(level, plev2) on two pressure coordinates, bnds(lat, nv).
DataVariables ==
    <<Variable("t", "f4", <<"level", "lat">>,
               <<Attribute("units", Chars_K), Attribute("_FillValue", <<"-", "9">>)>>,
               Filled(200, 6)),
      Variable("q", "f4", <<"lat", "level">>,
               <<Attribute("units", <<"1">>)>>, Filled(1, 6)),
      Variable("u", "f4", <<"time", "level", "lat">>,
               <<Attribute("units", <<"m", "/", "s">>)>>, Filled(10, 6)),
      Variable("zs", "f4", <<"lat">>,
               <<Attribute("units", <<"m">>), Attribute("_FillValue", <<"0">>)>>,
               Filled(50, 2)),
      Variable("cov", "f4", <<"level", "plev2">>, <<>>, Filled(70, 6)),
      Variable("bnds", "f8", <<"lat", "nv">>, <<>>, Filled(0, 4))>>

\* The level dataset holding the data variables called order[1], order[2],
\* ...: the dimensions they use, the coordinate variables of those, then
\* the data variables.
LevelDataset(order) ==
    LET chosen == [k \in DOMAIN order |-> Lookup(DataVariables, order[k])]
        used == UNION {{chosen[k].dimensions[j] : j \in DOMAIN chosen[k].dimensions} :
                          k \in DOMAIN chosen}
    IN  Dataset(SelectSeq(LevelDimensions, LAMBDA dim : dim.name \in used),
                SelectSeq(CoordinateVariables, LAMBDA c : c.name \in used) \o chosen)

LevelDatasets ==
    {LevelDataset(order) :
        order \in {o \in UNION {[1..n -> Names(DataVariables)] : n \in 1..MaxVars} :
                      \A j, k \in DOMAIN o : j # k => o[j] # o[k]}}

\* A surface dataset on the lat dimension: sp in Pa and t2m, with or
\* without its units attribute.
SurfaceDataset(sp_values, t2m_attrs) ==
    Dataset(<<Dimension("lat", 2)>>,
            <<Variable("sp", "f4", <<"lat">>, <<Attribute("units", Chars_Pa)>>,
                       Ints(sp_values)),
              Variable("t2m", "f4", <<"lat">>, t2m_attrs, Ints(<<230, 215>>))>>)

SurfaceDatasets ==
    {SurfaceDataset(<<95000, 60000>>, <<Attribute("units", Chars_K)>>),
     SurfaceDataset(<<95000, 5000>>, <<Attribute("units", Chars_K)>>),
     SurfaceDataset(<<95000, 60000>>, <<>>)}

\* A level dataset with its level coordinate stored from the ground up, in
\* decreasing pressure.
Descending(ds) ==
    Dataset(ds.dimensions,
            [k \in DOMAIN ds.variables |->
                IF ds.variables[k].name = "level"
                THEN [ds.variables[k] EXCEPT !.data = Ints(<<900, 500, 100>>)]
                ELSE ds.variables[k]])

DescendingDatasets ==
    {Descending(LevelDataset(<<"t">>)), Descending(LevelDataset(<<"q">>))}

\* A level dataset whose variable level is on the dimension lat, with two
\* values where the dimension level has three.
Misplaced(ds) ==
    Dataset(ds.dimensions,
            [k \in DOMAIN ds.variables |->
                IF ds.variables[k].name = "level"
                THEN Variable("level", "f8", <<"lat">>,
                              <<Attribute("units", Chars_hPa)>>,
                              Ints(<<100, 900>>))
                ELSE ds.variables[k]])

\* A level dataset whose variable level is a scalar.
ScalarLevel(ds) ==
    Dataset(ds.dimensions,
            [k \in DOMAIN ds.variables |->
                IF ds.variables[k].name = "level"
                THEN Variable("level", "f8", <<>>,
                              <<Attribute("units", Chars_hPa)>>, Ints(<<500>>))
                ELSE ds.variables[k]])

\* A level dataset whose dimension level has the size 1, and whose variable
\* level is on the dimension lat, with two values: the data variable
\* called name, on the dimensions called names.
OneLevel(name, names) ==
    Dataset(<<Dimension("level", 1), Dimension("lat", 2)>>,
            <<Variable("level", "f8", <<"lat">>,
                       <<Attribute("units", Chars_hPa)>>, Ints(<<100, 900>>)),
              Lookup(CoordinateVariables, "lat"),
              Variable(name, "f4", names, <<Attribute("units", Chars_K)>>,
                       Filled(200, 2))>>)

MisplacedDatasets ==
    {Misplaced(LevelDataset(<<"t">>)), Misplaced(LevelDataset(<<"q">>)),
     ScalarLevel(LevelDataset(<<"q">>)),
     OneLevel("t", <<"level", "lat">>), OneLevel("q", <<"lat", "level">>)}

\* A level dataset with the dimension time and its coordinate variable
\* added, which no other variable is on.
WithTime(ds) ==
    Dataset(<<Lookup(LevelDimensions, "time")>> \o ds.dimensions,
            <<Lookup(CoordinateVariables, "time")>> \o ds.variables)

\* A level dataset whose coordinate variable lat is on the dimensions lat
\* and nv, nv having a coordinate variable of its own.
Bounded(ds) ==
    Dataset(ds.dimensions \o <<Lookup(LevelDimensions, "nv")>>,
            [k \in DOMAIN ds.variables |->
                IF ds.variables[k].name = "lat"
                THEN Variable("lat", "f8", <<"lat", "nv">>,
                              <<Attribute("units", <<"d", "e", "g">>)>>,
                              Filled(10, 4))
                ELSE ds.variables[k]]
            \o <<Variable("nv", "f8", <<"nv">>, <<Attribute("units", <<"1">>)>>,
                          Ints(<<0, 1>>))>>)

\* Level datasets with a coordinate variable that no data variable is on.
CoordinateDatasets ==
    {WithTime(LevelDataset(<<"zs">>)), WithTime(LevelDataset(<<"t">>)),
     WithTime(LevelDataset(<<"zs", "t">>)),
     Bounded(LevelDataset(<<"zs">>)), Bounded(LevelDataset(<<"t">>)),
     Bounded(LevelDataset(<<"t", "zs">>)),
     WithTime(Bounded(LevelDataset(<<"q", "zs">>)))}

\* A level dataset on a lon-lat grid: t on the dimensions called names.
GridDataset(names) ==
    Dataset(<<Dimension("lon", 2), Dimension("level", 3), Dimension("lat", 2)>>,
            <<Variable("lon", "f8", <<"lon">>,
                       <<Attribute("units", <<"d", "e", "g">>)>>, Ints(<<0, 90>>)),
              Lookup(CoordinateVariables, "level"),
              Lookup(CoordinateVariables, "lat"),
              Variable("t", "f4", names, <<Attribute("units", Chars_K)>>,
                       Filled(200, 12))>>)

GridDatasets ==
    {GridDataset(<<"lon", "level", "lat">>), GridDataset(<<"lat", "lon", "level">>),
     GridDataset(<<"level", "lat", "lon">>)}

\* The surface fields on the grid, by (lat, lon) index.
GridSurfacePressure == << <<95000, 60000>>, <<30000, 20000>> >>

GridSurfaceTemperature == << <<230, 215>>, <<210, 205>> >>

\* The field raveled with lat first (names = <<"lat", "lon">>) or lon
\* first.
RavelField(field, names) ==
    IF names[1] = "lat"
    THEN Ints(<<field[1][1], field[1][2], field[2][1], field[2][2]>>)
    ELSE Ints(<<field[1][1], field[2][1], field[1][2], field[2][2]>>)

\* A surface dataset on the grid: sp and t2m on the dimensions names.
GridSurface(names) ==
    Dataset(<<Dimension("lat", 2), Dimension("lon", 2)>>,
            <<Variable("sp", "f4", names, <<Attribute("units", Chars_Pa)>>,
                       RavelField(GridSurfacePressure, names)),
              Variable("t2m", "f4", names, <<Attribute("units", Chars_K)>>,
                       RavelField(GridSurfaceTemperature, names))>>)

GridSurfaces == {GridSurface(<<"lat", "lon">>), GridSurface(<<"lon", "lat">>)}

\* The pairs of level and surface datasets that remap_all is called with.
DatasetPairs ==
    (LevelDatasets \X SurfaceDatasets)
    \cup (DescendingDatasets \X SurfaceDatasets)
    \cup (MisplacedDatasets \X SurfaceDatasets)
    \cup (CoordinateDatasets \X SurfaceDatasets)
    \cup (GridDatasets \X GridSurfaces)

\* Remappers of four half-levels (a in hPa), with a level_map of three
\* entries, of two, of one, or none.
RemapRemappers ==
    {VerticalRemapper(Ints(<<0, 50, 100, 0>>),
                      <<Num(0), Rat(1, 4), Rat(1, 2), Num(1)>>, Chars_hPa, m) :
        m \in {LevelMap(<<0, 1, 2>>), LevelMap(<<1, 2>>), LevelMap(<<1>>), NoLevelMap}}

DatasetNames == <<"level_data", "surface_data", "new_dataset">>

InitRemap ==
    /\ pc = "closed"
    /\ UnitsIdle
    /\ ColumnIdle
    /\ remapper \in RemapRemappers
    /\ \E pair \in DatasetPairs :
          /\ level_data = pair[1]
          /\ surface_data = pair[2]
    /\ new_dataset = EmptyDataset
    /\ handles = {}
    /\ position = 1
    /\ added_p = FALSE
    /\ error = ""
    /\ trace = <<>>
    /\ creations = [sigma_level |-> 0, p |-> 0]
    /\ p_writers = <<>>
    /\ handed = <<>>
    /\ prior = EmptyDataset
    /\ call = NoCall

inputVars == <<unitVars, colVars, remapper, level_data, surface_data, prior, call>>

\* The with statement opens the three datasets in order, one at a time.
Open ==
    /\ pc = "closed"
    /\ handles' = handles \cup {DatasetNames[Cardinality(handles) + 1]}
    /\ pc' = IF Cardinality(handles) = 2 THEN "opened" ELSE "closed"
    /\ UNCHANGED <<inputVars, new_dataset, position, added_p, error, trace,
                   creations, p_writers, handed>>

\* The next dataset cannot be opened: the with statement closes the ones
\* opened before it and the error leaves the call.
OpenFails ==
    /\ pc = "closed"
    /\ trace' = << [name |-> DatasetNames[Cardinality(handles) + 1],
                    branch |-> "open"] >>
    /\ handles' = {}
    /\ error' = "OSError"
    /\ pc' = "failed"
    /\ UNCHANGED <<inputVars, new_dataset, position, added_p, creations, p_writers,
                   handed>>

\* dimensions = tuple(dimension_variables) is collected whole, then
\* pressure_coordinates, before the loop.
Scan ==
    /\ pc = "opened"
    /\ LET dv == dimension_variables(level_data)
           pcs == pressure_coordinates(level_data)
       IN  IF dv.ok /\ pcs.ok
           THEN /\ pc' = "loop"
                /\ UNCHANGED <<handles, error>>
           ELSE /\ pc' = "failed"
                /\ handles' = {}
                /\ error' = IF ~dv.ok THEN dv.error ELSE pcs.error
    /\ UNCHANGED <<inputVars, new_dataset, position, added_p, trace, creations,
                   p_writers, handed>>

\* The variable the loop is at, and what CfVariable makes of it.
Current == level_data.variables[position]

CurrentCf == CfVariable(Current, pressure_coordinates(level_data).variables)

IsDimensionVariable(v) == v.name \in Names(level_data.dimensions)

\* How often name was created: once more when the pass added it.
Created(count, name, before, after) ==
    IF name \in Names(after.variables) /\ name \notin Names(before.variables)
    THEN count + 1 ELSE count

\* The end of a pass that leaves the datasets open when it failed.
EndPass_leaves_open(branch, r) ==
    /\ trace' = Append(trace, [name |-> Current.name, branch |-> branch])
    /\ new_dataset' = r.ds
    /\ creations' =
          [sigma_level |-> Created(creations.sigma_level, "sigma_level",
                                   new_dataset, r.ds),
           p |-> Created(creations.p, "p", new_dataset, r.ds)]
    /\ IF r.ok
       THEN /\ position' = position + 1
            /\ UNCHANGED <<pc, handles, error>>
       ELSE /\ pc' = "failed"
            /\ error' = r.error
            /\ UNCHANGED <<position, handles>>

\* The loop's pass ended: on to the next variable, or out of the with
\* statement (which closes the datasets) with the pass's exception.
EndPass(branch, r) ==
    /\ trace' = Append(trace, [name |-> Current.name, branch |-> branch])
    /\ new_dataset' = r.ds
    /\ creations' =
          [sigma_level |-> Created(creations.sigma_level, "sigma_level",
                                   new_dataset, r.ds),
           p |-> Created(creations.p, "p", new_dataset, r.ds)]
    /\ IF r.ok
       THEN /\ position' = position + 1
            /\ UNCHANGED <<pc, handles, error>>
       ELSE /\ pc' = "failed"
            /\ handles' = {}
            /\ error' = r.error
            /\ UNCHANGED position

\* if v in dimensions: continue
SkipDimension ==
    /\ pc = "loop"
    /\ position <= Len(level_data.variables)
    /\ IsDimensionVariable(Current)
    /\ EndPass("skipped", DsReturned(new_dataset))
    /\ handed' = <<>>
    /\ UNCHANGED <<inputVars, added_p, p_writers>>

\* if not variable.vertically_remappable: copy_variable
CopyVariable ==
    /\ pc = "loop"
    /\ position <= Len(level_data.variables)
    /\ ~IsDimensionVariable(Current)
    /\ ~CurrentCf.vertically_remappable
    /\ EndPass("copied", copy_variable(new_dataset, Current, level_data))
    /\ handed' = <<>>
    /\ UNCHANGED <<inputVars, added_p, p_writers>>

\* The rest of the loop body, for a remappable variable.
RemapVariable ==
    /\ pc = "loop"
    /\ position <= Len(level_data.variables)
    /\ ~IsDimensionVariable(Current)
    /\ CurrentCf.vertically_remappable
    /\ \E build \in [single : SingleSample, broadcasts : BOOLEAN, keyed : BOOLEAN] :
          LET r == RemapOne(build, remapper, level_data, surface_data,
                            new_dataset, added_p, Current, CurrentCf,
                            basic_converter)
          IN  /\ EndPass("remapped", r)
              /\ added_p' = r.added_p
              /\ handed' = r.handed
              /\ p_writers' = IF r.wrote_p THEN Append(p_writers, Current.name)
                              ELSE p_writers
    /\ UNCHANGED inputVars

\* The loop ends and the with statement closes the datasets.
Finish ==
    /\ pc = "loop"
    /\ position > Len(level_data.variables)
    /\ pc' = "done"
    /\ handles' = {}
    /\ UNCHANGED <<inputVars, new_dataset, position, added_p, error, trace,
                   creations, p_writers, handed>>

Next ==
    \/ Open
    \/ OpenFails
    \/ Scan
    \/ SkipDimension
    \/ CopyVariable
    \/ RemapVariable
    \/ Finish

Spec == InitRemap /\ [][Next]_vars

---------------------------------------------------------------------------
(* CfDataset's copy methods called on a destination dataset (new_dataset)  *)
(* with a dimension or a variable of a source dataset (level_data).        *)

\* A source whose coordinate variable lat has a second dimension, nv.
BoundedDataset ==
    Dataset(<<Dimension("lat", 2), Dimension("nv", 2)>>,
            <<Variable("lat", "f8", <<"lat", "nv">>,
                       <<Attribute("units", <<"d", "e", "g">>)>>, Filled(10, 4)),
              Variable("zs", "f4", <<"lat">>,
                       <<Attribute("units", <<"m">>),
                         Attribute("_FillValue", <<"0">>)>>,
                       Filled(50, 2))>>)

CopySources ==
    {LevelDataset(<<"t", "zs">>), LevelDataset(<<"bnds">>), BoundedDataset}

\* Destinations: empty, holding a dimension of the source's size or of
\* another, with or without its coordinate variable, or holding zs.
CopyDestinations ==
    {EmptyDataset,
     Dataset(<<Dimension("lat", 2)>>, <<>>),
     Dataset(<<Dimension("lat", 3)>>, <<>>),
     Dataset(<<Dimension("nv", 3)>>, <<>>),
     Dataset(<<Dimension("level", 4)>>, <<>>),
     Dataset(<<Dimension("lat", 2)>>, <<Lookup(CoordinateVariables, "lat")>>),
     Dataset(<<Dimension("lat", 2)>>,
             <<Lookup(CoordinateVariables, "lat"), Lookup(DataVariables, "zs")>>),
     Dataset(<<Dimension("lat", 3)>>, <<Lookup(DataVariables, "zs")>>),
     Dataset(<<Dimension("lat", 2), Dimension("nv", 3)>>,
             <<Variable("lat", "f8", <<"nv", "lat">>, <<>>, <<>>)>>)}

InitCopy ==
    /\ pc = "copy"
    /\ UnitsIdle
    /\ ColumnIdle
    /\ remapper = NoRemapper
    /\ level_data \in CopySources
    /\ surface_data = EmptyDataset
    /\ new_dataset \in CopyDestinations
    /\ handles = {}
    /\ position = 1
    /\ added_p = FALSE
    /\ error = ""
    /\ trace = <<>>
    /\ creations = [sigma_level |-> 0, p |-> 0]
    /\ p_writers = <<>>
    /\ handed = <<>>
    /\ prior = new_dataset
    /\ call = NoCall

\* The call returned or raised: the destination as it left it.
Called(op_, name_, r) ==
    /\ pc = "copy"
    /\ pc' = "copied"
    /\ call' = [op |-> op_, name |-> name_]
    /\ new_dataset' = r.ds
    /\ error' = r.error
    /\ UNCHANGED <<unitVars, colVars, remapper, level_data, surface_data,
                   handles, position, added_p, trace, creations, p_writers,
                   handed, prior>>

\* new_dataset.copy_dimension(level_data.dimensions[name])
CopyDimension ==
    \E k \in DOMAIN level_data.dimensions :
        Called("copy_dimension", level_data.dimensions[k].name,
               copy_dimension(new_dataset, level_data.dimensions[k]))

\* new_dataset.copy_variable_metadata(level_data.variables[name], level_data)
CopyVariableMetadata ==
    \E k \in DOMAIN level_data.variables :
        Called("copy_variable_metadata", level_data.variables[k].name,
               copy_variable_metadata(new_dataset, level_data.variables[k],
                                      level_data))

\* new_dataset.copy_variable(level_data.variables[name], level_data)
CopyVariableCall ==
    \E k \in DOMAIN level_data.variables :
        Called("copy_variable", level_data.variables[k].name,
               copy_variable(new_dataset, level_data.variables[k], level_data))

\* new_dataset.copy_variable_data(level_data.variables[name]), with either
\* netCDF4.
CopyVariableData ==
    \E k \in DOMAIN level_data.variables, broadcasts \in BOOLEAN :
        Called("copy_variable_data", level_data.variables[k].name,
               copy_variable_data(broadcasts, new_dataset,
                                  level_data.variables[k], level_data))

NextCopy ==
    \/ CopyDimension
    \/ CopyVariableMetadata
    \/ CopyVariableCall
    \/ CopyVariableData

SpecCopy == InitCopy /\ [][NextCopy]_vars

---------------------------------------------------------------------------
(* Properties of the units converter (checked under SpecUnits).             *)

\* Some entry of the default table matches the unit string.
Matched(units) ==
    \E k \in DOMAIN _default : match(_default[k].regex, units)

\* The factor and type of the first entry of the default table that matches.
FirstEntry(units) ==
    _default[CHOOSE k \in DOMAIN _default :
                 /\ match(_default[k].regex, units)
                 /\ \A j \in 1..(k - 1) : ~match(_default[j].regex, units)]

IsPressureUnit(units) ==
    Matched(units) /\ UnitsEq(FirstEntry(units).type, pressure)

\* C1: for unit strings s, d that the default registry resolves to the same
\* dimensional type, convert(s, d) returns factor(s)/factor(d), factor being
\* the SI factor of the first matching table entry; convert(hPa, Pa) = 100,
\* convert(Pa, hPa) = 0.01, convert(atm, Pa) = 101325, and convert(u, u) = 1
\* for every pressure unit u.
C1_ConvertIsFactorRatio ==
    (pc = "converted" /\ Matched(source) /\ Matched(destination)
        /\ UnitsEq(FirstEntry(source).type, FirstEntry(destination).type))
    => /\ converted.ok
       /\ converted.factor =
              Rat(FirstEntry(source).factor.n, FirstEntry(destination).factor.n)
       /\ (source = u_hPa /\ destination = u_Pa) => converted.factor = Num(100)
       /\ (source = u_Pa /\ destination = u_hPa) => converted.factor = Rat(1, 100)
       /\ (source = u_atm /\ destination = u_Pa)
              => converted.factor = Num(101325)
       /\ (source = destination /\ IsPressureUnit(source))
              => converted.factor = Num(1)

\* convert("atm", "hPa") returned 1013.25.
C1_Witness ==
    /\ pc = "converted"
    /\ source = u_atm
    /\ destination = u_hPa
    /\ converted.ok
    /\ converted.factor = Rat(101325, 100)

\* C2: convert returns no factor and raises UnitsError whenever either unit
\* string matches no table entry (message "<unit> not found in converter.")
\* or the two units resolve to types that differ in one of the seven
\* exponents (message "Cannot convert <source> to <destination>."); the two
\* messages differ.  Conversely a returned factor means both units matched
\* and have the same type.
C2_ConvertRaises ==
    pc = "converted" =>
       /\ ~Matched(source)
             => /\ ~converted.ok
                /\ converted.error = "UnitsError"
                /\ converted.message = source \o <<" not found in converter.">>
       /\ (Matched(source) /\ ~Matched(destination))
             => /\ ~converted.ok
                /\ converted.error = "UnitsError"
                /\ converted.message =
                       destination \o <<" not found in converter.">>
       /\ (Matched(source) /\ Matched(destination)
              /\ \E key \in UnitsKeys :
                    FirstEntry(source).type[key] # FirstEntry(destination).type[key])
             => /\ ~converted.ok
                /\ converted.error = "UnitsError"
                /\ converted.message =
                       <<"Cannot convert ">> \o source \o <<" to ">>
                           \o destination \o <<".">>
                /\ converted.message[Len(converted.message)]
                       # " not found in converter."
       /\ converted.ok
             => /\ Matched(source)
                /\ Matched(destination)
                /\ UnitsEq(FirstEntry(source).type, FirstEntry(destination).type)

\* convert("K", "Pa") raised "Cannot convert K to Pa.".
C2_Witness ==
    /\ pc = "converted"
    /\ source = u_K
    /\ destination = u_Pa
    /\ ~converted.ok
    /\ converted.message = <<"Cannot convert ", "K", " to ", "P", "a", ".">>

\* The type and SI factor the interface requires of a spelling.
RequiredEntry(units) ==
    CASE units \in {u_m, u_meter, u_meters} -> <<distance, 1>>
      [] units \in {u_atm, u_atmosphere, u_atmospheres} -> <<pressure, 101325>>
      [] units \in {u_bar, u_bars} -> <<pressure, 100000>>
      [] units \in {u_decibar, u_decibars} -> <<pressure, 10000>>
      [] units \in {u_hPa, u_mb, u_millibar, u_millibars} -> <<pressure, 100>>
      [] units \in {u_Pa, u_pascal, u_pascals} -> <<pressure, 1>>
      [] units = u_K -> <<temperature, 1>>

\* C3: the default registry resolves every required spelling, with and
\* without the plural s, to the listed type and SI factor; no listed
\* spelling raises UnitsError.
C3_RequiredSpellingsResolve ==
    (pc = "looked" /\ source \in RequiredUnits)
    => /\ looked.ok
       /\ UnitsEq(looked.type, RequiredEntry(source)[1])
       /\ looked.factor = Num(RequiredEntry(source)[2])

---------------------------------------------------------------------------
(* Properties of pressure and remap_column (checked under SpecColumn).      *)

\* The factor from the remapper's units to the units argument, when the
\* default registry can convert them.
Convertible == convert(basic_converter, remapper.units, pressure_units).ok

Conv == convert(basic_converter, remapper.units, pressure_units).factor

\* The half-level pressure a[k]*conv + b[k]*sp of the 0-based index k.
HalfLevel(k) ==
    RAdd(RMul(remapper.a[k + 1], Conv), RMul(remapper.b[k + 1], surface_pressure))

\* C4: a VerticalRemapper without a level_map (None) gives one pressure per
\* coefficient index i, a[i]*convert(self.units, units) + b[i]*sp.
C4_NoLevelMapPressure ==
    (pc = "pressure_done" /\ ~remapper.level_map.given /\ Convertible)
    => /\ pressures.ok
       /\ Len(pressures.value) = Len(remapper.a)
       /\ \A i \in DOMAIN pressures.value : pressures.value[i] = HalfLevel(i - 1)

\* Every entry of the level_map and the entry after it index a and b.
LevelMapInRange ==
    \A i \in DOMAIN remapper.level_map.map :
        /\ remapper.level_map.map[i] >= 0
        /\ remapper.level_map.map[i] + 1 < Len(remapper.a)
        /\ remapper.level_map.map[i] + 1 < Len(remapper.b)

\* C5: with a level_map, pressure returns len(level_map) values, the i-th
\* the arithmetic mean of the half-level pressures at level_map[i] and
\* level_map[i] + 1; the shipped ERA-Interim remapper has len(a) = len(b)
\* and every level_map entry and entry + 1 is a valid index.
C5_LevelMapPressure ==
    /\ Len(a_era_interim) = Len(b_era_interim)
    /\ \A i \in DOMAIN level_map_era_interim :
          /\ level_map_era_interim[i] >= 0
          /\ level_map_era_interim[i] + 1 < Len(a_era_interim)
    /\ (pc = "pressure_done" /\ remapper.level_map.given /\ Convertible
           /\ LevelMapInRange)
       => /\ pressures.ok
          /\ Len(pressures.value) = Len(remapper.level_map.map)
          /\ \A i \in DOMAIN pressures.value :
                RAdd(pressures.value[i], pressures.value[i]) =
                    RAdd(HalfLevel(remapper.level_map.map[i]),
                         HalfLevel(remapper.level_map.map[i] + 1))

\* The ERA-Interim remapper returned its 37 full-level pressures; the last
\* one, for half-levels 57 and 58 and a surface pressure of 1000 hPa, is
\* 0.5*((0.66 + 988.27) + (0.07 + 994.02)) = 991.51.
C5_Witness ==
    /\ pc = "pressure_done"
    /\ remapper = era_interim_remapper
    /\ pressure_units = <<"h", "P", "a">>
    /\ surface_pressure = Num(1000)
    /\ pressures.ok
    /\ Len(pressures.value) = 37
    /\ pressures.value[37] = Rat(99151, 100)

\* The target pressures returned are those of pressure(): one for every
\* entry of the level map, the mean of its two half-level pressures.
TargetsReturned ==
    /\ Len(remapped.values) = Len(remapper.level_map.map)
    /\ Len(remapped.p) = Len(remapper.level_map.map)
    /\ \A i \in DOMAIN remapped.p :
          RAdd(remapped.p[i], remapped.p[i]) =
              RAdd(HalfLevel(remapper.level_map.map[i]),
                   HalfLevel(remapper.level_map.map[i] + 1))

\* The target q lies outside the source pressures.
OutOfRange(q) ==
    \/ \A k \in DOMAIN column.pressure : RLess(q, column.pressure[k])
    \/ \A k \in DOMAIN column.pressure : RLess(column.pressure[k], q)

\* remap_column returned, whenever pressure() gives targets, and every
\* target got the source value at a source pressure, the linear
\* interpolation between the two bracketing samples strictly between them,
\* and fill_value out of range.
ColumnInterpolated ==
    /\ (remapper.level_map.given /\ Convertible /\ LevelMapInRange)
          => remapped.ok
    /\ remapped.ok =>
          /\ TargetsReturned
          /\ \A i \in DOMAIN remapped.p :
                LET q == remapped.p[i]
                    P == column.pressure
                    V == column.variable
                IN  /\ \A k \in DOMAIN P : q = P[k] => remapped.values[i] = V[k]
                    /\ \A j, k \in DOMAIN P :
                          (/\ RLess(P[j], q)
                           /\ RLess(q, P[k])
                           /\ \A m \in DOMAIN P : ~(RLess(P[j], P[m]) /\ RLess(P[m], P[k])))
                          => remapped.values[i] =
                                RAdd(V[j], RDiv(RMul(RSub(V[k], V[j]), RSub(q, P[j])),
                                                RSub(P[k], P[j])))
                    /\ OutOfRange(q) => remapped.values[i] = column.fill_value

\* The source pressures of the column are distinct.
DistinctPressures ==
    \A j, k \in DOMAIN column.pressure :
        j # k => column.pressure[j] # column.pressure[k]

\* C6 as stated, for every column: remap_column does not raise for an
\* out-of-range target; for every target pressure q it returns the source
\* value when q equals a source pressure, the linear interpolation between
\* the two bracketing source samples when q lies strictly between them, and
\* fill_value when q is below the smallest or above the largest source
\* pressure.
C6_AnyColumnInterpolated == (pc = "column_done") => ColumnInterpolated

\* C6, amended: that holds for a column of at least two samples at distinct
\* pressures.  For a column of a single sample remap_column may raise
\* ValueError; where it returns, the targets are those of pressure() and
\* every target out of range got fill_value.
C6_RemapColumnInterpolates ==
    /\ (pc = "column_done" /\ Len(column.pressure) >= 2 /\ DistinctPressures)
          => ColumnInterpolated
    /\ (pc = "column_done" /\ Len(column.pressure) = 1 /\ remapped.ok)
          => /\ TargetsReturned
             /\ \A i \in DOMAIN remapped.p :
                   OutOfRange(remapped.p[i])
                       => remapped.values[i] = column.fill_value

\* A column of the single sample 6 at 505, asked for the target 505 and a
\* target out of range: remap_column raised ValueError, or returned
\* something other than 6 at 505.
C6_SingleSample ==
    /\ pc = "column_done"
    /\ column = Column(<<505>>, <<6>>, 5)
    /\ remapper.level_map.given /\ Convertible /\ LevelMapInRange
    /\ \/ ~remapped.ok /\ remapped.error = "ValueError"
       \/ /\ remapped.ok
          /\ \E i \in DOMAIN remapped.p :
                remapped.p[i] = Num(505) /\ ~IsFinite(remapped.values[i])

\* Pressures [100, 500, 900], values [1, 2, 3], fill 1: the target 50 gave
\* 1 and the target 900 gave 3.
C6_Witness ==
    /\ pc = "column_done"
    /\ column = Column(<<100, 500, 900>>, <<1, 2, 3>>, 1)
    /\ remapped.ok
    /\ remapped.p = <<Num(50), Num(900)>>
    /\ remapped.values = <<Num(1), Num(3)>>

\* A target strictly between two source samples was interpolated.
C6_Interpolated ==
    /\ pc = "column_done"
    /\ column = Column(<<100, 500, 900>>, <<1, 2, 3>>, 0)
    /\ remapped.ok
    /\ remapped.p = <<Num(400)>>
    /\ remapped.values = <<Rat(7, 4)>>

---------------------------------------------------------------------------
(* Properties of remap_all.                                                 *)

LevelVariable(name) == Lookup(level_data.variables, name)

\* What CfVariable makes of the level variable called name.
Classified(name) ==
    CfVariable(LevelVariable(name), pressure_coordinates(level_data).variables)

\* The positions of v's dimensions that have the name of a pressure
\* coordinate of the level dataset other than v itself.
PressureDimensions(v) ==
    {j \in DOMAIN v.dimensions :
        /\ v.dimensions[j] # v.name
        /\ \E c \in Names(pressure_coordinates(level_data).variables) :
              c = v.dimensions[j]}

\* The passes of the loop that took the remapping branch, and whether the
\* k-th pass ended without an exception.
RemappedPasses == {k \in DOMAIN trace : trace[k].branch = "remapped"}

Completed(k) == k < Len(trace) \/ pc # "failed"

FirstRemapped == trace[CHOOSE k \in RemappedPasses : \A j \in RemappedPasses : k <= j].name

InOutput(name) == name \in Names(new_dataset.variables)

\* The output variable called v.name is a copy of v: dimensions, type,
\* attributes and data.
VerbatimCopy(v) ==
    /\ InOutput(v.name)
    /\ Lookup(new_dataset.variables, v.name).dimensions = v.dimensions
    /\ Lookup(new_dataset.variables, v.name).datatype = v.datatype
    /\ {Lookup(new_dataset.variables, v.name).attrs[j] :
           j \in DOMAIN Lookup(new_dataset.variables, v.name).attrs}
          = {v.attrs[j] : j \in DOMAIN v.attrs}
    /\ Lookup(new_dataset.variables, v.name).data = v.data

\* The output variable called v.name has v's dimensions with sigma_level
\* in the place of the pressure coordinate, and that many values.
RemappedCopy(v) ==
    /\ InOutput(v.name)
    /\ Lookup(new_dataset.variables, v.name).dimensions =
          [j \in DOMAIN v.dimensions |->
              IF v.dimensions[j] = Classified(v.name).coordinate
              THEN "sigma_level" ELSE v.dimensions[j]]
    /\ Len(Lookup(new_dataset.variables, v.name).data) =
          Product(ShapeOf(new_dataset, Lookup(new_dataset.variables, v.name)), 1)

\* The dimensions that the variables which are not coordinate variables
\* need in the output: those of a copied variable, and those other than its
\* pressure coordinate of a remapped one.
ProcessedDimensions ==
    {name \in Names(level_data.dimensions) :
        \E k \in DOMAIN level_data.variables :
            /\ ~IsDimensionVariable(level_data.variables[k])
            /\ \E j \in DOMAIN level_data.variables[k].dimensions :
                  level_data.variables[k].dimensions[j] = name
            /\ Classified(level_data.variables[k].name).coordinate # name}

\* The dimensions of the level variables called names.
DimensionsAmong(names) ==
    {name \in Names(level_data.dimensions) :
        \E k \in DOMAIN level_data.variables :
            /\ level_data.variables[k].name \in names
            /\ \E j \in DOMAIN level_data.variables[k].dimensions :
                  level_data.variables[k].dimensions[j] = name}

\* The names with the dimensions of their coordinate variables, the
\* dimensions of the coordinate variables of these, and so on.
RECURSIVE CopiedAlong(_)
CopiedAlong(names) ==
    IF DimensionsAmong(names) \subseteq names THEN names
    ELSE CopiedAlong(names \cup DimensionsAmong(names))

\* A coordinate variable that a processed variable needs: a dimension of a
\* copied variable, a dimension other than the pressure coordinate of a
\* remapped one, or a dimension of a coordinate variable that is needed.
NeededCoordinate(name) == name \in CopiedAlong(ProcessedDimensions)

\* C7 as stated: after remap_all returns, every variable of the level
\* dataset, coordinate variables included, has a like-named variable in
\* the output: a copy if it does not depend on a pressure coordinate, a
\* variable on sigma_level otherwise.
C7_EveryVariableInOutput ==
    pc = "done" =>
        \A k \in DOMAIN level_data.variables :
            IF Classified(level_data.variables[k].name).vertically_remappable
            THEN RemappedCopy(level_data.variables[k])
            ELSE VerbatimCopy(level_data.variables[k])

\* C7 amended: after remap_all returns, every variable of the level
\* dataset that is not a coordinate variable has a like-named variable in
\* the output, a copy (dimensions, attributes, data) if none of its
\* dimensions is a pressure coordinate and a variable on sigma_level
\* otherwise; a coordinate variable is in the output, as a copy, exactly
\* when it is needed: by a processed variable, or by a coordinate variable
\* that is itself in the output.
C7_ProcessedVariablesInOutput ==
    pc = "done" =>
        \A k \in DOMAIN level_data.variables :
            IF IsDimensionVariable(level_data.variables[k])
            THEN /\ InOutput(level_data.variables[k].name)
                    <=> NeededCoordinate(level_data.variables[k].name)
                 /\ InOutput(level_data.variables[k].name)
                    => VerbatimCopy(level_data.variables[k])
            ELSE IF Classified(level_data.variables[k].name).vertically_remappable
            THEN RemappedCopy(level_data.variables[k])
            ELSE VerbatimCopy(level_data.variables[k])

\* A run that returned after copying one variable and remapping another,
\* with the pressure coordinate variable left out of the output.
C7_Witness ==
    /\ pc = "done"
    /\ \E k \in DOMAIN trace : trace[k].branch = "copied"
    /\ RemappedPasses # {}
    /\ \E k \in DOMAIN level_data.variables :
          /\ IsDimensionVariable(level_data.variables[k])
          /\ ~InOutput(level_data.variables[k].name)

\* A run that returned with a coordinate variable that no other variable
\* is on (time) left out of the output, and with one that only another
\* coordinate variable is on (nv) copied.
C7_UnusedLeftOut ==
    /\ pc = "done"
    /\ level_data = WithTime(Bounded(LevelDataset(<<"q", "zs">>)))
    /\ ~InOutput("time")
    /\ InOutput("nv") /\ InOutput("lat") /\ ~InOutput("level")
    /\ "nv" \notin ProcessedDimensions

\* C8: in any run sigma_level (dimension and index variable) and p are
\* created at most once, and p is written by at most one pass; without a
\* remapping pass none of them exists; once a remapping pass has ended,
\* each was created exactly once, sigma_level has len(level_map) entries
\* with the values 1..N, p has the units of the first remapped variable's
\* pressure coordinate and its dimensions, and only that variable's pass
\* wrote p.
C8_PressureAddedOnce ==
    /\ creations.sigma_level <= 1
    /\ creations.p <= 1
    /\ Len(p_writers) <= 1
    /\ RemappedPasses = {} =>
          /\ creations = [sigma_level |-> 0, p |-> 0]
          /\ p_writers = <<>>
          /\ "sigma_level" \notin Names(new_dataset.dimensions)
          /\ ~InOutput("sigma_level")
          /\ ~InOutput("p")
    /\ \A k \in RemappedPasses :
          Completed(k) =>
              /\ creations = [sigma_level |-> 1, p |-> 1]
              /\ Lookup(new_dataset.dimensions, "sigma_level").size
                    = Len(remapper.level_map.map)
              /\ Lookup(new_dataset.variables, "sigma_level").data
                    = [l \in 1..Len(remapper.level_map.map) |-> Num(l)]
              /\ getncattr(Lookup(new_dataset.variables, "p"), "units")
                    = Classified(FirstRemapped).pressure_units
              /\ Lookup(new_dataset.variables, "p").dimensions
                    = Lookup(new_dataset.variables, FirstRemapped).dimensions
              /\ p_writers = <<FirstRemapped>>

\* A run that returned after remapping two variables or more.
C8_Witness ==
    /\ pc = "done"
    /\ Cardinality(RemappedPasses) >= 2
    /\ creations = [sigma_level |-> 1, p |-> 1]
    /\ p_writers = <<FirstRemapped>>

\* C9 as stated: whatever the number of levels of the pressure coordinate
\* and the length of level_map, a run with a level_map and with every
\* column reaching above the ground does not end in the ValueError or
\* IndexError of a buffer of the wrong size, and a remapped variable has
\* len(level_map) values along sigma_level.
C9_AnyLevelCountRemaps ==
    (/\ remapper.level_map.given
     /\ Lookup(surface_data.variables, surface_pressure_name).data
           = Ints(<<95000, 60000>>))
    => /\ ~(pc = "failed" /\ error \in {"ValueError", "IndexError"})
       /\ \A k \in RemappedPasses :
             Completed(k) => RemappedCopy(LevelVariable(trace[k].name))

\* C10 as stated: a processed variable takes the remapping branch exactly
\* when one of its dimensions, and no more, is a pressure coordinate.
C10_RemappableIffOnePressureDimension ==
    \A k \in DOMAIN trace :
        trace[k].branch \in {"copied", "remapped"} =>
            (trace[k].branch = "remapped"
                <=> Cardinality(PressureDimensions(LevelVariable(trace[k].name))) = 1)

\* C10 amended: a processed variable takes the remapping branch exactly
\* when at least one of its dimensions is a pressure coordinate of the
\* level dataset (its own name not counting), whose first in the order of
\* the dataset's dimensions is the axis remapped; a variable with none is
\* copied verbatim.
C10_RemappableIffSomePressureDimension ==
    \A k \in DOMAIN trace :
        trace[k].branch \in {"copied", "remapped"} =>
            /\ trace[k].branch = "remapped"
                  <=> PressureDimensions(LevelVariable(trace[k].name)) # {}
            /\ trace[k].branch = "remapped" =>
                  /\ Classified(trace[k].name).pressure_index + 1
                        \in PressureDimensions(LevelVariable(trace[k].name))
                  /\ \A j \in PressureDimensions(LevelVariable(trace[k].name)) :
                        IndexOf([i \in DOMAIN level_data.dimensions |->
                                    level_data.dimensions[i].name],
                                Classified(trace[k].name).coordinate)
                        <= IndexOf([i \in DOMAIN level_data.dimensions |->
                                       level_data.dimensions[i].name],
                                   LevelVariable(trace[k].name).dimensions[j])
            /\ (trace[k].branch = "copied" /\ Completed(k)) =>
                  VerbatimCopy(LevelVariable(trace[k].name))

\* A run that returned after remapping a variable on two pressure
\* coordinates and copying one on none.
C10_Witness ==
    /\ pc = "done"
    /\ \E k \in RemappedPasses :
          Cardinality(PressureDimensions(LevelVariable(trace[k].name))) = 2
    /\ \E k \in DOMAIN trace :
          /\ trace[k].branch = "copied"
          /\ PressureDimensions(LevelVariable(trace[k].name)) = {}

---------------------------------------------------------------------------
(* Properties of the copy methods of CfDataset.                             *)

\* The call of the named method returned or raised.
CalledOp(op_) == pc = "copied" /\ call.op = op_

\* The dimension / variable of the source that the call was given.
GivenDimension == Lookup(level_data.dimensions, call.name)

GivenVariable == Lookup(level_data.variables, call.name)

\* The destination held a dimension of the given name before the call.
WasPresent(name) == name \in Names(prior.dimensions)

\* ... and of the source's size.
SameSize(name) ==
    Lookup(prior.dimensions, name).size = Lookup(level_data.dimensions, name).size

\* C11 (as stated): copy_dimension(d), when the destination already has a
\* dimension called d.name, returns without an error if its size is d.size
\* and fails if it is not; either way the destination is left as it was.
C11_CopyDimensionIdempotent ==
    (CalledOp("copy_dimension") /\ WasPresent(call.name)) =>
        /\ new_dataset = prior
        /\ (error = "") <=> SameSize(call.name)

\* C11 (amended): copy_dimension(d) adds the dimension d.name of size
\* d.size when the destination has none of that name, and otherwise raises
\* RuntimeError, whatever the sizes, and leaves the destination as it was.
C11_CopyDimensionRaisesOnExisting ==
    CalledOp("copy_dimension") =>
        IF WasPresent(call.name)
        THEN error = "RuntimeError" /\ new_dataset = prior
        ELSE /\ error = ""
             /\ new_dataset.dimensions = Append(prior.dimensions, GivenDimension)
             /\ new_dataset.variables = prior.variables

\* copy_dimension was called for a dimension that the destination held
\* with the same size, and raised.
C11_Witness ==
    /\ CalledOp("copy_dimension")
    /\ WasPresent(call.name)
    /\ SameSize(call.name)
    /\ error = "RuntimeError"

\* copy_variable or copy_variable_metadata returned or raised.
CalledCopyVariable ==
    CalledOp("copy_variable") \/ CalledOp("copy_variable_metadata")

\* The names of a variable's dimensions.
DimensionsOf(v) == {v.dimensions[k] : k \in DOMAIN v.dimensions}

\* The dimensions that the copy of v reaches: its own, and those of the
\* coordinate variables copied on its behalf (of the dimensions that the
\* destination did not hold).
ReachedDimensions(v) ==
    DimensionsOf(v) \cup
    UNION {DimensionsOf(Lookup(level_data.variables, name)) :
              name \in {n \in DimensionsOf(v) :
                           /\ ~WasPresent(n)
                           /\ n \in Names(level_data.variables)}}

\* The destination held the dimension with another size than the source.
Conflicting(name) == WasPresent(name) /\ ~SameSize(name)

\* C12: when a dimension reached by the copy of a variable is in the
\* destination with another size, copy_variable_metadata and copy_variable
\* raise and make no variable.
C12_SizeConflictPropagates ==
    (/\ CalledCopyVariable
     /\ \E name \in ReachedDimensions(GivenVariable) : Conflicting(name)) =>
        /\ error # ""
        /\ (call.name \in Names(new_dataset.variables)
               => call.name \in Names(prior.variables))

\* The attributes of a variable, as a set.
AttributeSet(v) == {v.attrs[k] : k \in DOMAIN v.attrs}

\* The destination holds a variable like v of the source: the same
\* dimension names and sizes, type, attributes and data.
HoldsCopy(v) ==
    /\ v.name \in Names(new_dataset.variables)
    /\ Lookup(new_dataset.variables, v.name).dimensions = v.dimensions
    /\ ShapeOf(new_dataset, Lookup(new_dataset.variables, v.name))
          = ShapeOf(level_data, v)
    /\ Lookup(new_dataset.variables, v.name).datatype = v.datatype
    /\ AttributeSet(Lookup(new_dataset.variables, v.name)) = AttributeSet(v)
    /\ Lookup(new_dataset.variables, v.name).data = v.data

\* The destination holds the dimension and the coordinate variable of the
\* source called name, with its data.
HoldsCoordinate(name) ==
    /\ name \in Names(new_dataset.dimensions)
    /\ Lookup(new_dataset.dimensions, name).size
          = Lookup(level_data.dimensions, name).size
    /\ name \in Names(new_dataset.variables)
    /\ name \in Names(level_data.variables)
          => Lookup(new_dataset.variables, name).data
                = Lookup(level_data.variables, name).data

\* C13: after copy_variable(v, A) returned, the destination holds a copy
\* of v and, for every dimension of v, the dimension and its coordinate
\* variable, also when it held the dimension before the call.
C13_CopyVariableRoundTrip ==
    (CalledOp("copy_variable") /\ error = "") =>
        /\ HoldsCopy(GivenVariable)
        /\ \A name \in DimensionsOf(GivenVariable) : HoldsCoordinate(name)

---------------------------------------------------------------------------
(* Properties of remap_all's handles and of its column loop.                *)

\* remap_all has returned or raised.
Exited == pc \in {"done", "failed"}

\* C14: when remap_all has exited, by returning or by an error from an
\* open or from the processing of a variable, no dataset is open, and it
\* has an error exactly when it did not return.
C14_HandlesClosedOnExit ==
    Exited => /\ handles = {}
              /\ (pc = "failed") <=> (error # "")

\* remap_all had the three datasets open and left with an error raised in
\* the pass of a remappable variable.
C14_Witness ==
    /\ pc = "failed"
    /\ handles = {}
    /\ error # ""
    /\ trace # <<>>
    /\ trace[Len(trace)].branch = "remapped"

\* The variable of the latest pass, what CfVariable made of it, and its
\* columns along the pressure coordinate.
LatestVariable == LevelVariable(trace[Len(trace)].name)

LatestCf == Classified(trace[Len(trace)].name)

LatestColumns ==
    ColumnsOf(LatestVariable.data, ShapeOf(level_data, LatestVariable),
              LatestCf.pressure_index, Len(LatestCf.pressure))

\* The positions, in source order, of the levels of pressure less than sp.
AboveGround(pressure_, sp) ==
    SelectSeq([k \in DOMAIN pressure_ |-> k], LAMBDA k : RLess(pressure_[k], sp))

\* The entries of array at the positions.
AtPositions(array, positions) == [j \in DOMAIN positions |-> array[positions[j]]]

\* All but the last / the last entry of a sequence.
Front(seq) == SubSeq(seq, 1, Len(seq) - 1)

Last(seq) == seq[Len(seq)]

\* C15: what a column hands to remap_column is, in source order, the
\* levels of pressure less than the column's surface pressure and nothing
\* else of the source, then one sample at the surface pressure; the fill
\* value is the first sample of the column.
C15_OnlyAboveGroundHanded ==
    \A i \in DOMAIN handed :
        /\ Front(handed[i].p)
              = AtPositions(LatestCf.pressure,
                            AboveGround(LatestCf.pressure, handed[i].sp))
        /\ Front(handed[i].column)
              = AtPositions(LatestColumns[i],
                            AboveGround(LatestCf.pressure, handed[i].sp))
        /\ Last(handed[i].p) = handed[i].sp
        /\ handed[i].fill = handed[i].column[1]

\* The same for a pressure coordinate stored in increasing order.
AscendingHanded ==
    (/\ handed # <<>>
     /\ \A j, k \in DOMAIN LatestCf.pressure :
           j < k => RLess(LatestCf.pressure[j], LatestCf.pressure[k]))
    => C15_OnlyAboveGroundHanded

\* The latest pass remapped a variable with no surface name.
NoAlias == handed # <<>> /\ LatestVariable.name \notin DOMAIN surface_variables

\* The pressures of a handed column increase strictly.
StrictlyIncreasing(seq) ==
    \A j, k \in DOMAIN seq : j < k => RLess(seq[j], seq[k])

\* C16: for a variable with no surface name, every column handed to
\* remap_column has at least two samples at strictly increasing pressures,
\* and its surface sample is the value of the last level above ground.
C16_SurfaceSampleIsLastAboveGround ==
    NoAlias =>
        \A i \in DOMAIN handed :
            /\ Len(handed[i].column) >= 2
            /\ StrictlyIncreasing(handed[i].p)
            /\ Last(handed[i].column) = Last(Front(handed[i].column))
            /\ \E k \in DOMAIN LatestCf.pressure :
                  /\ RLess(LatestCf.pressure[k], handed[i].sp)
                  /\ Last(handed[i].column) = LatestColumns[i][k]

\* The latest pass remapped a variable with a surface name, and the
\* surface variable of that name.
Aliased ==
    /\ trace # <<>>
    /\ trace[Len(trace)].branch = "remapped"
    /\ LatestVariable.name \in DOMAIN surface_variables
    /\ surface_variables[LatestVariable.name] \in Names(surface_data.variables)

LatestSurface ==
    Lookup(surface_data.variables, surface_variables[LatestVariable.name])

\* The variable p and the remapped variable were made in the latest pass
\* or before: the pass came to the surface values.
CameToSurface ==
    /\ InOutput("p")
    /\ InOutput(LatestVariable.name)

\* The surface values raveled, times the factor.
SurfaceSamples(factor) ==
    [k \in DOMAIN LatestSurface.data |-> RMul(LatestSurface.data[k], factor)]

\* C17: for a variable with a surface name, when the surface variable or
\* the level variable has no units attribute the pass goes on with the
\* surface values as they are (a factor of 1): no AttributeError ends it,
\* and a column's surface sample is the surface variable's value.
C17_MissingUnitsMeanNoConversion ==
    (/\ Aliased
     /\ CameToSurface
     /\ ~HasAttr(LatestSurface, "units") \/ ~HasAttr(LatestVariable, "units")) =>
        /\ ~(pc = "failed" /\ error = "AttributeError")
        /\ \A i \in DOMAIN handed :
              Last(handed[i].column) = SurfaceSamples(Num(1))[i]

\* The level dataset has a dimension with no variable of its name.
BareDimension ==
    \E k \in DOMAIN level_data.dimensions :
        level_data.dimensions[k].name \notin Names(level_data.variables)

\* remap_all failed before its loop, in dimension_variables or
\* pressure_coordinates.
FailedBeforeLoop == pc = "failed" /\ trace = <<>>

\* C18: dimension_variables passes over a dimension that has no variable
\* of its name, so remap_all does not fail before its loop on a level
\* dataset with such a dimension.
C18_BareDimensionSkipped ==
    BareDimension => ~FailedBeforeLoop

\* The latest pass remapped a variable, and an earlier pass did too.
LaterRemapped ==
    /\ trace # <<>>
    /\ trace[Len(trace)].branch = "remapped"
    /\ \E k \in RemappedPasses : k < Len(trace)

\* The dimensions of the latest variable other than its pressure
\* coordinate.
OtherDimensionsOf(v, cf) == DimensionsOf(v) \ {cf.coordinate}

\* C19: for a remappable variable after the first, every dimension other
\* than its pressure coordinate is in the output with its coordinate
\* variable, and the remapped variable is created.
C19_LaterVariablesHaveDimensions ==
    LaterRemapped =>
        /\ \A name \in OtherDimensionsOf(LatestVariable, LatestCf) :
              /\ name \in Names(new_dataset.dimensions)
              /\ InOutput(name)
        /\ InOutput(LatestVariable.name)

\* The 0-based indices, by dimension name, of the grid point of column i
\* (1-based) of the latest variable: the columns run over the dimensions
\* other than the pressure coordinate in C order.
GridPoint(i) ==
    LET names == WithoutAxis(LatestVariable.dimensions, LatestCf.pressure_index)
        index == Unravel(i - 1, WithoutAxis(ShapeOf(level_data, LatestVariable),
                                            LatestCf.pressure_index))
    IN  [name \in {names[k] : k \in DOMAIN names} |->
            index[CHOOSE k \in DOMAIN names : names[k] = name]]

\* The surface variable sv is on dimensions of the latest variable.
OnSharedDimensions(sv) ==
    DimensionsOf(sv) \subseteq OtherDimensionsOf(LatestVariable, LatestCf)

\* The value of the surface variable sv at the grid point.
AtGridPoint(sv, point) ==
    sv.data[Ravel([k \in DOMAIN sv.dimensions |-> point[sv.dimensions[k]]],
                  ShapeOf(surface_data, sv), 1) + 1]

\* The surface pressure variable, and its factor to the units of the
\* pressure coordinate.
SurfacePressureVariable == Lookup(surface_data.variables, surface_pressure_name)

PressureFactor ==
    convert(basic_converter, getncattr(SurfacePressureVariable, "units"),
            LatestCf.pressure_units).factor

\* C20: the surface pressure that column i is given, and its surface
\* sample when the variable has a surface name, are those of the grid
\* point of column i, whatever the order of the surface variables'
\* dimensions.
C20_ColumnsPairedByGridPoint ==
    (handed # <<>> /\ OnSharedDimensions(SurfacePressureVariable)) =>
        \A i \in DOMAIN handed :
            /\ handed[i].sp
                  = RMul(AtGridPoint(SurfacePressureVariable, GridPoint(i)),
                         PressureFactor)
            /\ (Aliased /\ OnSharedDimensions(LatestSurface)) =>
                  Last(handed[i].column)
                     = RMul(AtGridPoint(LatestSurface, GridPoint(i)),
                            convert(basic_converter,
                                    getncattr(LatestSurface, "units"),
                                    getncattr(LatestVariable, "units")).factor)

====
